---- MODULE Spec2Model ----
(***************************************************************************)
(* Economic-nexus analysis and exposure estimation of salt-nexus-automator *)
(* as a state machine.  One run takes a transaction table and a state      *)
(* configuration, evaluates the vectorised analyzer                        *)
(* (src/src/salt_nexus_automator), then the per-state per-month loop       *)
(* analyzer (src/src/nexus_analysis.py), then the two exposure             *)
(* calculators.                                                            *)
(*                                                                         *)
(* Months are integers: month m is calendar month (m % 12) + 1 of year     *)
(* m \div 12.  Timestamps are modelled at month granularity.  Money is     *)
(* exact: rates are integer percents and derived amounts are kept as       *)
(* integer multiples of a fixed unit, so float rounding is not modelled.   *)
(***************************************************************************)
EXTENDS Integers, Sequences, FiniteSets, TLC

\* ---------------------------------------------------------------- bounds
\* Last month of the modelled calendar (months 0..MaxMonth).
MaxMonth == 13
\* Largest number of transactions in a run of the nexus specification.
MaxTxns == 2
\* Largest number of sales rows of an input checked through the exposure step.
MaxSales == 3
\* The longest sequence of add_warning calls made on a collector.
MaxCalls == 5

\* ------------------------------------------------------ program constants
\* pd.NaT / a missing first_trigger_month.
NaT == -1
\* Python None: a missing or null configuration value.
None == -9999
\* A configured value that float() rejects: a string that is not a number.
NotANumber == -9998
\* The calendar year of month 0.
BaseYear == 2024
\* details.get('months', 12); add_rolling_12m(window=12).
DefaultWindow == 12
\* Months per calendar year (Period.year, pd.Timestamp(f'{year}-01-01')).
MonthsPerYear == 12
\* state_params.get('vda_lookback_cap', 36)
DefaultLookbackCap == 36
\* state_params.get('vda_interest_rate', 0.05), in percent
DefaultInterestRate == 5
\* state_params.get('standard_penalty_rate', 0.25), in percent
DefaultPenaltyRate == 25

Year(m) == m \div MonthsPerYear

\* ----------------------------------------------------------- small helpers
Range(s) == {s[i] : i \in DOMAIN s}

Max2(a, b) == IF a >= b THEN a ELSE b

RECURSIVE SumAmount(_)
\* Series.sum() of total_amount over a table (0 for an empty table).
SumAmount(rows) ==
    IF rows = <<>> THEN 0
    ELSE Head(rows).total_amount + SumAmount(Tail(rows))

\* Series.nunique() of invoice_number.
NUnique(rows) == Cardinality({rows[i].invoice_number : i \in DOMAIN rows})

\* df[df['total_amount'] != 0]
NonZero(rows) == SelectSeq(rows, LAMBDA t : t.total_amount # 0)

\* df[(index >= start) & (index <= end)] at month granularity.
Between(rows, lo, hi) == SelectSeq(rows, LAMBDA t : t.month >= lo /\ t.month <= hi)

OfState(rows, s) == SelectSeq(rows, LAMBDA t : t.state = s)

MonthsOf(rows) == {rows[i].month : i \in DOMAIN rows}

SetMin(S) == CHOOSE x \in S : \A y \in S : x <= y
SetMax(S) == CHOOSE x \in S : \A y \in S : x >= y

\* ------------------------------------------------------------ ErrorCollector
\* Variant: every message is appended, also one the list already holds.
add_warning_always(w, msg) == Append(w, msg)

\* ErrorCollector.add_warning: append unless the message is already recorded.
add_warning(w, msg) == IF msg \in Range(w) THEN w ELSE Append(w, msg)

\* The messages a step appended to the warnings list.
new_messages(w, w2) == SubSeq(w2, Len(w) + 1, Len(w2))

\* Variant: warnings_count counts the calls, also those with a recorded message.
summary_counts_calls(sm, w, w2) ==
    [warnings |-> sm.warnings \o new_messages(w, w2),
     warnings_count |-> sm.warnings_count + 1]

\* add_warning on the summary: each message appended to the warnings list is
\* appended to summary['warnings'] and warnings_count becomes len(warnings);
\* nothing is touched when no message was appended.
record_in_summary(sm, w, w2) ==
    IF w2 = w THEN sm
    ELSE [warnings |-> sm.warnings \o new_messages(w, w2), warnings_count |-> Len(w2)]

\* ------------------------------------------------------------ channels
\* str.upper() on the channel strings that occur in the modelled inputs.
Upper(ch) ==
    CASE ch = "etsy" -> "ETSY"
      [] ch = "dtc"  -> "DTC"
      [] OTHER       -> ch

marketplace_channels == {"AMAZON-FBA", "ETSY", "EBAY"}

is_marketplace_sale(t) == Upper(t.sales_channel) \in marketplace_channels

\* ------------------------------------------------------------ inputs
StateOrder == <<"CA", "NY">>
States == Range(StateOrder)

Txn(s, m, a, inv, ch, ex) ==
    [state |-> s, month |-> m, total_amount |-> a, invoice_number |-> inv,
     sales_channel |-> ch, is_exempt |-> ex]

Cfg(rule, sth, tth, incl, rate) ==
    [lookback_rule |-> rule, sales_threshold |-> sth, transaction_threshold |-> tth,
     marketplace_threshold_inclusion |-> incl, lookback_months |-> None,
     tax_rate |-> rate, vda_lookback_cap |-> None, vda_interest_rate |-> None,
     standard_penalty_rate |-> None, vda_penalty_waived |-> TRUE]

RECURSIVE SortByMonth(_)
\* DataFrame.sort_index(): the rows in date order.
SortByMonth(S) ==
    IF S = {} THEN <<>>
    ELSE LET t == CHOOSE x \in S : \A y \in S : x.month <= y.month
         IN  <<t>> \o SortByMonth(S \ {t})

RECURSIVE SubsetsUpTo(_, _)
SubsetsUpTo(S, k) ==
    IF k = 0 THEN {{}}
    ELSE LET R == SubsetsUpTo(S, k - 1)
         IN  R \cup {T \cup {x} : T \in R, x \in S}

PoolMonths == {0, 1, MaxMonth}
Kinds == {[inv |-> "A", ch |-> "DTC"], [inv |-> "B", ch |-> "etsy"]}

NexusTxnPool ==
    {Txn("CA", m, a, k.inv, k.ch, FALSE) : m \in PoolMonths, a \in {-20, 25}, k \in Kinds}
    \cup {Txn("NY", m, 25, k.inv, k.ch, FALSE) : m \in {0, MaxMonth}, k \in Kinds}
    \cup {Txn("CA", 0, 0, "Z", "DTC", FALSE)}

Rules == {"rolling_12m", "calendar_prev_curr", "calendar_prev", "rolling_4q",
          "accounting_year", "none", "fiscal_quarter"}

NexusCfgs ==
    {Cfg(r, 20, None, TRUE, 7) : r \in Rules}
    \cup {Cfg("rolling_12m", None, 2, TRUE, 7), Cfg("rolling_12m", None, None, TRUE, 7),
          Cfg("rolling_12m", 20, None, FALSE, 7), Cfg("rolling_12m", 20, 2, FALSE, 7)}

NexusConfigs ==
    {[s \in {"CA"} |-> c] : c \in NexusCfgs}
    \cup {[s \in States |-> IF s = "CA" THEN c ELSE Cfg("rolling_12m", 20, None, TRUE, 7)] :
            c \in NexusCfgs}

\* A state configuration with the exposure parameters spelled out: tax rate and
\* VDA rates in percent, None for a key that is absent or null.
ExposureCfg(rate, cap, interest, penalty, waived) ==
    [lookback_rule |-> "rolling_12m", sales_threshold |-> 20, transaction_threshold |-> None,
     marketplace_threshold_inclusion |-> TRUE, lookback_months |-> None,
     tax_rate |-> rate, vda_lookback_cap |-> cap, vda_interest_rate |-> interest,
     standard_penalty_rate |-> penalty, vda_penalty_waived |-> waived]

ExposureTxnPool ==
    {Txn("CA", m, a, "A", "DTC", FALSE) : m \in PoolMonths, a \in {-20, 25}}
    \cup {Txn("CA", 1, 25, "B", "DTC", TRUE), Txn("NY", MaxMonth, 25, "A", "DTC", FALSE),
          Txn("NY", 0, 25, "A", "DTC", FALSE)}

ExposureCfgs ==
    {ExposureCfg(7, cap, None, None, w) : cap \in {None, 1}, w \in BOOLEAN}
    \cup {ExposureCfg(7, None, 6, -10, TRUE), ExposureCfg(7, -1, None, None, TRUE),
          ExposureCfg(None, None, None, None, TRUE), ExposureCfg(-5, None, None, None, TRUE),
          ExposureCfg(7, 0, None, None, FALSE)}

\* Configurations in which CA and NY differ: one of the two has an unusable
\* tax rate or unusable VDA parameters, the other the plain 7 percent entry.
MixedCfgPairs ==
    LET plain == ExposureCfg(7, None, None, None, TRUE)
    IN  {<<plain, ExposureCfg(None, None, None, None, TRUE)>>,
         <<plain, ExposureCfg(-5, None, None, None, TRUE)>>,
         <<ExposureCfg(NotANumber, None, None, None, TRUE), plain>>,
         <<plain, ExposureCfg(7, None, None, -10, TRUE)>>,
         <<ExposureCfg(7, -1, None, None, TRUE), plain>>}

ExposureConfigs ==
    {[s \in States |-> c] : c \in ExposureCfgs}
    \cup {[s \in States |-> IF s = "CA" THEN pr[1] ELSE pr[2]] : pr \in MixedCfgPairs}

\* The worked scenario: CA sells 10 in 2024-01 and 25 in 2024-02, NY has an
\* exempt sale of 15 in 2024-01; CA is configured (rolling_12m, sales threshold
\* 20, tax rate 7 percent), NY is not.  Month 0 is 2024-01.
ScenarioTxns ==
    {Txn("CA", 0, 10, "A", "DTC", FALSE), Txn("CA", 1, 25, "B", "DTC", FALSE),
     Txn("NY", 0, 15, "C", "DTC", TRUE)}

ScenarioDf == SortByMonth(ScenarioTxns)

ScenarioConfig == [s \in {"CA"} |-> Cfg("rolling_12m", 20, None, TRUE, 7)]

\* The scenario's rows and rows that vary it: a CA sale in 2024-03, the NY sale
\* taxable, a larger CA sale in 2024-01.
ScenarioTxnPool ==
    ScenarioTxns
    \cup {Txn("CA", 2, 25, "D", "DTC", FALSE), Txn("NY", 0, 15, "C", "DTC", FALSE),
          Txn("CA", 0, 25, "E", "DTC", FALSE)}

ScenarioConfigs ==
    {ScenarioConfig, [s \in States |-> Cfg("rolling_12m", 20, None, TRUE, 7)]}

\* A calendar date and a month string such as '2024-02', kept as their numbers;
\* NullStr is a null cell of a string column.
Date(y, m, d) == <<y, m, d>>
MonthStr(y, m) == <<y, m>>
NullStr == <<>>

\* A row of a sales table as it is handed over: the date (in the index when the
\* table has a DatetimeIndex, in the invoice_date column otherwise) and a
\* month_year column of strings that need not agree with it.
RawSale(s, date, month_year, a, inv, ch, ex) ==
    [state |-> s, invoice_date |-> date, month_year |-> month_year, total_amount |-> a,
     invoice_number |-> inv, channel |-> ch, is_exempt |-> ex]

\* The position of an invoice in the file.
InvoiceRank(inv) ==
    CASE inv = "X1" -> 1 [] inv = "Y2" -> 2 [] inv = "Z3" -> 3
      [] inv = "Y3" -> 4 [] inv = "W4" -> 5 [] inv = "Z5" -> 6

\* The rows of test_exposure_accepts_no_datetime_index and rows that vary them:
\* a stale month_year string, a sale in January of the next year, a taxable NY
\* sale after NY's trigger month.
RawSalesPool ==
    {RawSale("CA", Date(2024, 1, 1), MonthStr(2024, 1), 10, "X1", "DTC", FALSE),
     RawSale("CA", Date(2024, 2, 15), MonthStr(2024, 2), 25, "Y2", "Marketplace", FALSE),
     RawSale("NY", Date(2024, 1, 20), MonthStr(2024, 1), 15, "Z3", "DTC", TRUE),
     RawSale("CA", Date(2024, 2, 15), MonthStr(2024, 1), 25, "Y3", "DTC", FALSE),
     RawSale("CA", Date(2025, 1, 5), MonthStr(2025, 1), 25, "W4", "DTC", FALSE),
     RawSale("NY", Date(2024, 4, 2), MonthStr(2024, 4), 15, "Z5", "DTC", FALSE)}

RECURSIVE SortByInvoice(_)
\* The rows of a sales table in file order (here: by invoice number).
SortByInvoice(S) ==
    IF S = {} THEN <<>>
    ELSE LET r == CHOOSE x \in S : \A y \in S :
                      InvoiceRank(x.invoice_number) <= InvoiceRank(y.invoice_number)
         IN  <<r>> \o SortByInvoice(S \ {r})

\* A nexus summary row as handed over.
SummaryRow(s, first) == [state |-> s, first_trigger_month |-> first]

\* Summaries with month strings: the one of the test, and variations with a
\* later or a null trigger month.
StringSummaries ==
    {<<SummaryRow("CA", ca), SummaryRow("NY", MonthStr(2024, 3))>> :
        ca \in {MonthStr(2024, 1), MonthStr(2024, 2), NullStr}}

\* The same summaries with first_trigger_month already a Period column.
PeriodSummaries ==
    {<<SummaryRow("CA", ca), SummaryRow("NY", 2)>> : ca \in {0, 1, NaT}}

\* The layouts of a sales table: the date in a DatetimeIndex, in an
\* invoice_date column, or nowhere.
SalesLayouts ==
    {[index |-> "DatetimeIndex", columns |-> {"state", "total_amount", "is_exempt"}],
     [index |-> "RangeIndex",
      columns |-> {"invoice_date", "state", "total_amount", "is_exempt", "month_year"}],
     [index |-> "RangeIndex", columns |-> {"state", "total_amount", "is_exempt"}]}

\* ------------------------------------------------------------ state
VARIABLES
    df,                             \* the standardized transaction table, in date order
    config,                         \* state_config: state -> parameters
    pc,                             \* position in the run
    warnings,                       \* ErrorCollector.warnings
    state_i,                        \* analyze_nexus: index into all_states
    period,                         \* analyze_nexus: the month being evaluated
    first_trigger_month_for_state,  \* analyze_nexus: first trigger of the current state
    state_results,                  \* analyze_nexus: rows of the current state
    results,                        \* analyze_nexus: rows of the finished states
    df_m,                           \* vectorised analyzer: the monthly metrics table
    df_out,                         \* vectorised analyzer: the returned table
    vda_option,                     \* "Estimate" or "None"
    exposure_df,                    \* ExposureCalculator (src): the returned table
    exposure_error,                 \* ExposureCalculator (src): the exception raised
    pkg_exposure_df,                \* ExposureCalculator (package): the returned table
    pkg_warnings,                   \* ExposureCalculator (package): its ErrorCollector
    summary,                        \* ErrorCollector.summary: warnings, warnings_count
    calls,                          \* the messages add_warning was called with (history)
    raw_sales,                      \* the sales table as handed over, before any coercion
    columns,                        \* the column names of raw_sales
    sales_index,                    \* the index of raw_sales: "DatetimeIndex" or "RangeIndex"
    summary_in,                     \* the nexus summary as handed over, before any coercion
    trigger_dtype,                  \* dtype of summary_in.first_trigger_month: "period", "str"
    pkg_error,                      \* ExposureCalculator (package): the exception raised
    nexus_error,                    \* NexusAnalyzer (src): the exception raised
    first_run,                      \* what an earlier run on the same objects returned
    file,                           \* DataLoader: the table read from the file
    frame,                          \* DataLoader (src), DataStandardizer: the table returned
    pkg_frame                       \* DataLoader (package): the table _postprocess returned

vars == <<df, config, pc, warnings, state_i, period, first_trigger_month_for_state,
          state_results, results, df_m, df_out, vda_option, exposure_df, exposure_error,
          pkg_exposure_df, pkg_warnings, summary, calls, raw_sales, columns, sales_index,
          summary_in, trigger_dtype, pkg_error, nexus_error, first_run, file, frame,
          pkg_frame>>

\* What the steps of the analysis leave alone: the tables as they were handed
\* over, the exceptions of the steps before the analysis and the tables of an
\* earlier run.
outside == <<raw_sales, columns, sales_index, summary_in, trigger_dtype, pkg_error,
             nexus_error, first_run, file, frame, pkg_frame>>

\* The ErrorCollector state next to its warnings list.
collector == <<summary, calls>>

\* ------------------------------ agg_utils and the vectorised NexusAnalyzer
RECURSIVE SortedSeq(_)
\* The elements of a set of months in increasing order (groupby(..., sort=True)).
SortedSeq(S) ==
    IF S = {} THEN <<>>
    ELSE <<SetMin(S)>> \o SortedSeq(S \ {SetMin(S)})

RECURSIVE SumField(_, _, _, _)
\* Sum of column f over rows lo..hi of a table.
SumField(rows, f, lo, hi) ==
    IF lo > hi THEN 0 ELSE rows[hi][f] + SumField(rows, f, lo, hi - 1)

\* df.loc[~df["channel"].str.upper().isin(MARKETPLACE_CHANNELS)]
vec_filter_marketplace(d) == SelectSeq(d, LAMBDA t : ~is_marketplace_sale(t))

\* monthly_state_summary, the rows of one state: one row per month that has
\* transactions, sales = sum of total_amount, txns = distinct invoice numbers.
monthly_state_summary(d, s) ==
    LET ms == SortedSeq(MonthsOf(OfState(d, s)))
    IN  [i \in DOMAIN ms |->
            LET g == Between(OfState(d, s), ms[i], ms[i])
            IN  [state |-> s, month_year |-> ms[i], sales |-> SumAmount(g),
                 txns |-> NUnique(g), cy |-> Year(ms[i])]]

\* s.rolling(window, min_periods=1).sum() at row i: the last `window` rows.
rolling_sum(rows, f, i, window) == SumField(rows, f, Max2(1, i - window + 1), i)

\* add_rolling_12m on the rows of one state.
add_rolling_12m(rows, window) ==
    [i \in DOMAIN rows |->
        [state |-> rows[i].state, month_year |-> rows[i].month_year,
         sales |-> rows[i].sales, txns |-> rows[i].txns, cy |-> rows[i].cy,
         sales_12m |-> rolling_sum(rows, "sales", i, window),
         txns_12m |-> rolling_sum(rows, "txns", i, window)]]

\* add_calendar_year_metrics of salt_nexus_automator/agg_utils.py on the rows of
\* one state: the per-state total shifted by one row is missing for its single
\* row, and the cumulative sum runs over all the state's rows.
add_calendar_year_metrics(rows) ==
    [i \in DOMAIN rows |->
        [state |-> rows[i].state, month_year |-> rows[i].month_year,
         sales |-> rows[i].sales, txns |-> rows[i].txns, cy |-> rows[i].cy,
         sales_12m |-> rows[i].sales_12m, txns_12m |-> rows[i].txns_12m,
         sales_prev_yr |-> None, txns_prev_yr |-> None,
         sales_curr_ytd |-> SumField(rows, "sales", 1, i),
         txns_curr_ytd |-> SumField(rows, "txns", 1, i)]]

\* DataFrame.max(axis=1) of two columns, missing values skipped.
NanMax(a, b) == IF a = None THEN b ELSE IF b = None THEN a ELSE Max2(a, b)

\* evaluate_thresholds: the basis a rule selects.
sales_base(row, rule) ==
    CASE rule = "calendar_prev_curr" -> NanMax(row.sales_prev_yr, row.sales_curr_ytd)
      [] rule = "calendar_prev" -> row.sales_prev_yr
      [] OTHER -> row.sales_12m

txns_base(row, rule) ==
    CASE rule = "calendar_prev_curr" -> NanMax(row.txns_prev_yr, row.txns_curr_ytd)
      [] rule = "calendar_prev" -> row.txns_prev_yr
      [] OTHER -> row.txns_12m

\* (base >= th) if th is not None else False; a missing base compares False.
vec_met(base, th) == IF th # None THEN (base # None /\ base >= th) ELSE FALSE

evaluate_thresholds(rows, rule, sales_th, txn_th) ==
    [i \in DOMAIN rows |->
        [state |-> rows[i].state, month_year |-> rows[i].month_year,
         sales_met |-> vec_met(sales_base(rows[i], rule), sales_th),
         txn_met |-> vec_met(txns_base(rows[i], rule), txn_th)]]

\* triggered_months.groupby("state")["month_year"].min(), missing when none.
first_hit(rows) ==
    LET hit == {rows[i].month_year : i \in {j \in DOMAIN rows :
                                              rows[j].sales_met \/ rows[j].txn_met}}
    IN  IF hit = {} THEN NaT ELSE SetMin(hit)

\* df_out.merge(first_hit, on="state", how="left") on the rows of one state.
merge_first_hit(rows) ==
    [i \in DOMAIN rows |->
        [state |-> rows[i].state, month_year |-> rows[i].month_year,
         sales_met |-> rows[i].sales_met, txn_met |-> rows[i].txn_met,
         first_trigger_month |-> first_hit(rows)]]

\* Steps 1-3 of the vectorised analyze_nexus for one state.
vec_metrics(d, s) ==
    add_calendar_year_metrics(add_rolling_12m(monthly_state_summary(d, s), DefaultWindow))

\* Steps 4-5 for one state: no rows when the state has no configuration.
vec_state_out(d, s) ==
    IF s \notin DOMAIN config THEN <<>>
    ELSE merge_first_hit(evaluate_thresholds(vec_metrics(d, s),
                                             config[s].lookback_rule,
                                             config[s].sales_threshold,
                                             config[s].transaction_threshold))

RECURSIVE concat_metrics(_, _)
\* The monthly metrics table: the per-state rows, states in sorted order.
concat_metrics(d, i) ==
    IF i > Len(StateOrder) THEN <<>>
    ELSE vec_metrics(d, StateOrder[i]) \o concat_metrics(d, i + 1)

RECURSIVE concat_results(_, _)
\* pd.concat(results) of the per-state evaluated slices, states in sorted order.
concat_results(d, i) ==
    IF i > Len(StateOrder) THEN <<>>
    ELSE vec_state_out(d, StateOrder[i]) \o concat_results(d, i + 1)

\* NexusAnalyzer.analyze_nexus of salt_nexus_automator: the whole call.
vec_analyze_nexus ==
    /\ pc = "vec"
    /\ LET d == vec_filter_marketplace(df)
       IN  /\ df_m' = concat_metrics(d, 1)
           /\ df_out' = concat_results(d, 1)
    /\ pc' = "vec_exposure"
    /\ UNCHANGED <<df, config, warnings, state_i, period, first_trigger_month_for_state,
                   state_results, results, vda_option, exposure_df, exposure_error,
                   pkg_exposure_df, pkg_warnings>>
    /\ UNCHANGED collector
    /\ UNCHANGED outside

\* ------------------------------------------------- exposure: shared pieces
\* Money columns derived from a tax rate are exact integers: rates are integer
\* percents and a derived amount is held in units of 1/(100 * 100 * 12) of the
\* currency unit of total_amount.

\* Variant: every transaction is taken as taxable.
all_sales_df == df

\* self.sales_df[~self.sales_df['is_exempt']]
taxable_sales_df == SelectSeq(df, LAMBDA t : ~t.is_exempt)

\* taxable_sales_df.groupby(['state', 'month_year'])['total_amount'].sum(), the
\* rows of one state.
monthly_taxable_sales(s) ==
    LET d == OfState(taxable_sales_df, s)
        ms == SortedSeq(MonthsOf(d))
    IN  [i \in DOMAIN ms |->
            [state |-> s, month_year |-> ms[i],
             taxable_sales |-> SumAmount(Between(d, ms[i], ms[i]))]]

\* monthly_taxable_sales['month_year'].max()
last_data_month == SetMax(MonthsOf(taxable_sales_df))

\* The first trigger of a state in a nexus summary: the earliest non-null
\* first_trigger_month on its rows (drop_duplicates, groupby idxmin), NaT if none.
first_triggers(nexus_summary, s) ==
    LET vals == {nexus_summary[i].first_trigger_month :
                    i \in {j \in DOMAIN nexus_summary :
                             nexus_summary[j].state = s /\ nexus_summary[j].first_trigger_month # NaT}}
    IN  IF vals = {} THEN NaT ELSE SetMin(vals)

\* taxable_sales * tax_rate
estimated_tax(taxable_sales, tax_rate) == taxable_sales * tax_rate * (100 * MonthsPerYear)

\* estimated_tax * penalty_rate
penalty_on(tax, penalty_rate) == (tax * penalty_rate) \div 100

\* full_liability - vda_liability
estimated_vda_savings(full_liability, vda_liability) == full_liability - vda_liability

\* _calculate_interest: 0 for a missing input, a negative rate or negative
\* months; otherwise tax_amount * (annual_rate / 12) * months_late.
_calculate_interest(tax_amount, annual_rate, months_late) ==
    IF tax_amount = None \/ annual_rate = None \/ months_late = None
       \/ annual_rate < 0 \/ months_late < 0
    THEN 0
    ELSE (tax_amount * annual_rate * months_late) \div (100 * MonthsPerYear)

\* One exposure row before the VDA columns.
base_row(r, tax_rate) ==
    [state |-> r.state, month_year |-> r.month_year, taxable_sales |-> r.taxable_sales,
     tax_rate |-> tax_rate, estimated_tax |-> estimated_tax(r.taxable_sales, tax_rate)]

\* A row with the eight VDA columns set.
vda_row(b, fi, fp, vt, vi, vp) ==
    [state |-> b.state, month_year |-> b.month_year, taxable_sales |-> b.taxable_sales,
     tax_rate |-> b.tax_rate, estimated_tax |-> b.estimated_tax,
     full_interest |-> fi, full_penalty |-> fp,
     full_liability |-> b.estimated_tax + fi + fp,
     vda_tax |-> vt, vda_interest |-> vi, vda_penalty |-> vp,
     vda_liability |-> vt + vi + vp,
     estimated_vda_savings |-> estimated_vda_savings(b.estimated_tax + fi + fp, vt + vi + vp)]

\* Variant: the VDA columns are not added.
zero_fill_skipped(b) == b

\* The columns of a returned table: those of its rows; every empty return is
\* pd.DataFrame(), a frame without columns (chunks are appended only when they
\* have rows, so a concatenated frame is never empty).
exposure_columns(t) == IF t = <<>> THEN {} ELSE DOMAIN t[1]

\* The VDA columns filled with 0.0.
zero_fill(b) ==
    [state |-> b.state, month_year |-> b.month_year, taxable_sales |-> b.taxable_sales,
     tax_rate |-> b.tax_rate, estimated_tax |-> b.estimated_tax,
     full_interest |-> 0, full_penalty |-> 0, full_liability |-> 0,
     vda_tax |-> 0, vda_interest |-> 0, vda_penalty |-> 0, vda_liability |-> 0,
     estimated_vda_savings |-> 0]

\* The VDA computation of a row: full liability for every month, VDA liability
\* for the months from vda_start on.
vda_columns(b, vda_start, last, int_rate, p_rate, waived) ==
    LET months_late == last - b.month_year
        inside == b.month_year >= vda_start
        vt == IF inside THEN b.estimated_tax ELSE 0
    IN  vda_row(b,
                _calculate_interest(b.estimated_tax, int_rate, months_late),
                penalty_on(b.estimated_tax, p_rate),
                vt,
                IF inside THEN _calculate_interest(vt, int_rate, months_late) ELSE 0,
                penalty_on(vt, p_rate) * (IF waived THEN 0 ELSE 1))

\* ---------------------------- ExposureCalculator of salt_nexus_automator
\* first_trigger_month + 1
pkg_start_month(first) == first + 1

\* monthly_taxable[(state == s) & (month_year >= start_month)] with the tax columns.
pkg_state_exposure(s, first, tax_rate) ==
    LET rows == SelectSeq(monthly_taxable_sales(s),
                          LAMBDA r : r.month_year >= pkg_start_month(first))
    IN  [i \in DOMAIN rows |-> base_row(rows[i], tax_rate)]

\* float(params.get("tax_rate")) succeeds and is not negative.
pkg_valid_tax_rate(tax_rate) ==
    tax_rate # None /\ tax_rate # NotANumber /\ tax_rate >= 0

\* params.get(key, default) or default
OrDefault(v, default) == IF v = None \/ v = 0 THEN default ELSE v

\* The rows one triggered state contributes.
pkg_state_rows(s, first) ==
    IF s \notin DOMAIN config \/ ~pkg_valid_tax_rate(config[s].tax_rate) THEN <<>>
    ELSE LET rows == pkg_state_exposure(s, first, config[s].tax_rate)
             vda_lookback == OrDefault(config[s].vda_lookback_cap, DefaultLookbackCap)
             int_rate == OrDefault(config[s].vda_interest_rate, DefaultInterestRate)
             p_rate == OrDefault(config[s].standard_penalty_rate, DefaultPenaltyRate)
         IN  IF vda_option = "Estimate"
             THEN [i \in DOMAIN rows |->
                      vda_columns(rows[i], last_data_month - (vda_lookback - 1),
                                  last_data_month, int_rate, p_rate,
                                  config[s].vda_penalty_waived)]
             ELSE [i \in DOMAIN rows |-> zero_fill(rows[i])]

\* The warning one triggered state adds, if any.
pkg_state_warning(w, s) ==
    IF s \notin DOMAIN config THEN add_warning(w, <<"No configuration found for state", s>>)
    ELSE IF ~pkg_valid_tax_rate(config[s].tax_rate)
    THEN add_warning(w, <<"Invalid or missing tax_rate", s>>)
    ELSE w

RECURSIVE pkg_exposure_loop(_, _)
\* for state, trig_row in first_triggers.iterrows(): the chunks and the warnings.
pkg_exposure_loop(i, acc) ==
    IF i > Len(StateOrder) THEN acc
    ELSE LET s == StateOrder[i]
             first == first_triggers(df_out, s)
         IN  IF first = NaT THEN pkg_exposure_loop(i + 1, acc)
             ELSE pkg_exposure_loop(i + 1,
                      [rows |-> acc.rows \o pkg_state_rows(s, first),
                       warnings |-> pkg_state_warning(acc.warnings, s)])

\* ExposureCalculator.calculate_exposure(sales_df, nexus_summary) of
\* salt_nexus_automator on the vectorised analyzer's table: the whole call.
pkg_calculate_exposure ==
    /\ pc = "vec_exposure"
    /\ IF df = <<>> \/ df_out = <<>> \/ taxable_sales_df = <<>>
       THEN UNCHANGED <<pkg_exposure_df, pkg_warnings>>
       ELSE LET out == pkg_exposure_loop(1, [rows |-> <<>>, warnings |-> pkg_warnings])
            IN  /\ pkg_exposure_df' = out.rows
                /\ pkg_warnings' = out.warnings
    /\ pc' = "nexus"
    /\ UNCHANGED <<df, config, vda_option, warnings, state_i, period,
                   first_trigger_month_for_state, state_results, results, df_m, df_out,
                   exposure_df, exposure_error>>
    /\ UNCHANGED collector
    /\ UNCHANGED outside

\* ------------------------------------------ NexusAnalyzer (per-month loop)
\* sorted(self.df['state'].unique())
all_states == SelectSeq(StateOrder, LAMBDA s : \E i \in DOMAIN df : df[i].state = s)

min_month == SetMin(MonthsOf(df))
max_month == SetMax(MonthsOf(df))

\* self.df[~is_marketplace_sale]
df_non_marketplace == SelectSeq(df, LAMBDA t : ~is_marketplace_sale(t))

\* _get_state_params: whether the state has a configuration entry.
has_state_params(state) == state \in DOMAIN config

WindowMonths(details) == IF details = None THEN DefaultWindow ELSE details

\* Variant: the window holds the current month only.
rolling_window_current_month(state_df, months, p) == Between(state_df, p, p)

\* state_df[(index >= start_date) & (index <= end_date)] of the rolling rule.
rolling_window_df(state_df, months, p) == Between(state_df, p - (months - 1), p)

\* The previous full calendar year.
prev_yr_df(state_df, p) == SelectSeq(state_df, LAMBDA t : Year(t.month) = Year(p) - 1)

\* The current calendar year up to the end of the current period.
curr_ytd_df(state_df, p) ==
    SelectSeq(state_df, LAMBDA t : Year(t.month) = Year(p) /\ t.month <= p)

Agg(sales, txns, warn) ==
    [rolling_sales |-> sales, rolling_transactions |-> txns, unsupported |-> warn]

\* sum of total_amount and distinct invoices of nonzero amount in a window.
WindowAgg(window_df) == Agg(SumAmount(window_df), NUnique(NonZero(window_df)), FALSE)

\* Variant: a rule without a branch of its own falls back to the rolling
\* 12-month window instead of 0/0 with a warning.
rolling_aggregates_default_12m(state_df, rule, details, p) ==
    IF state_df = <<>> THEN Agg(0, 0, FALSE)
    ELSE CASE rule = "calendar_prev_curr" ->
                LET prev == WindowAgg(prev_yr_df(state_df, p))
                    curr == WindowAgg(curr_ytd_df(state_df, p))
                IN  Agg(Max2(prev.rolling_sales, curr.rolling_sales),
                        Max2(prev.rolling_transactions, curr.rolling_transactions), FALSE)
           [] rule = "calendar_prev" -> WindowAgg(prev_yr_df(state_df, p))
           [] rule = "accounting_year" -> WindowAgg(prev_yr_df(state_df, p))
           [] rule = "none" -> Agg(0, 0, FALSE)
           [] OTHER -> WindowAgg(rolling_window_df(state_df, WindowMonths(details), p))

\* _calculate_rolling_aggregates: the basis of one state for one period.
_calculate_rolling_aggregates(state_df, rule, details, p) ==
    IF state_df = <<>> THEN Agg(0, 0, FALSE)
    ELSE CASE rule = "rolling_12m" ->
                WindowAgg(rolling_window_df(state_df, WindowMonths(details), p))
           [] rule = "calendar_prev_curr" ->
                LET prev == WindowAgg(prev_yr_df(state_df, p))
                    curr == WindowAgg(curr_ytd_df(state_df, p))
                IN  Agg(Max2(prev.rolling_sales, curr.rolling_sales),
                        Max2(prev.rolling_transactions, curr.rolling_transactions), FALSE)
           [] rule = "calendar_prev" -> WindowAgg(prev_yr_df(state_df, p))
           [] rule = "rolling_4q" ->
                WindowAgg(rolling_window_df(state_df, DefaultWindow, p))
           [] rule = "accounting_year" -> WindowAgg(prev_yr_df(state_df, p))
           [] rule = "none" -> Agg(0, 0, FALSE)
           [] OTHER -> Agg(0, 0, TRUE)

\* Variant: a null threshold compared as 0.
threshold_met_null_as_zero(basis, thresh) ==
    basis >= (IF thresh = None THEN 0 ELSE thresh)

\* (basis >= thresh) if thresh is not None else False
threshold_met(basis, thresh) == IF thresh # None THEN basis >= thresh ELSE FALSE

\* Variant: the tracked month is overwritten by every triggered period.
track_latest_trigger(nexus_triggered, first, p) ==
    IF nexus_triggered THEN p ELSE first

\* Variant: the tracked month is set by the first period, triggered or not.
track_first_period(nexus_triggered, first, p) ==
    IF first = NaT THEN p ELSE first

\* Variant: the tracked month is dropped by a period that is not triggered.
track_current_trigger(nexus_triggered, first, p) ==
    IF nexus_triggered THEN (IF first = NaT THEN p ELSE first) ELSE NaT

\* if nexus_triggered and pd.isna(first_trigger_month_for_state): ... = period
track_first_trigger(nexus_triggered, first, p) ==
    IF nexus_triggered /\ first = NaT THEN p ELSE first

\* The table the thresholds of a state are computed from.
state_df_for_thresholds(state, include_marketplace) ==
    IF include_marketplace THEN OfState(df, state)
    ELSE OfState(df_non_marketplace, state)

\* Variant: a state is skipped when either threshold is null.
skip_state_any_null(params) ==
    (params.sales_threshold = None \/ params.transaction_threshold = None)
    \/ params.lookback_rule = "none"

\* Skip states with no thresholds defined or no applicable rule.
skip_state(params) ==
    (params.sales_threshold = None /\ params.transaction_threshold = None)
    \/ params.lookback_rule = "none"

\* One row of the nexus summary.
nexus_row(state, p, params, agg, first) ==
    LET sales_met == threshold_met(agg.rolling_sales, params.sales_threshold)
        txn_met == threshold_met(agg.rolling_transactions, params.transaction_threshold)
    IN  [state |-> state, month_year |-> p,
         rolling_sales |-> agg.rolling_sales,
         rolling_transactions |-> agg.rolling_transactions,
         lookback_rule |-> params.lookback_rule,
         sales_met |-> sales_met, txn_met |-> txn_met,
         nexus_triggered |-> (sales_met \/ txn_met),
         first_trigger_month |-> track_first_trigger(sales_met \/ txn_met, first, p)]

unsupported_rule_warning(rule) == <<"Unsupported lookback rule", rule>>
no_config_warning(state) == <<"No configuration found for state", state>>

\* Variant: analyze_nexus goes on with the list an earlier call filled.
results_kept(earlier) == earlier

\* results = []: the list of result rows is local to the call.
new_results(earlier) == <<>>

\* analyze_nexus, entry: the empty check and the analysis period.
analyze_nexus_begin ==
    /\ pc = "nexus"
    /\ IF df = <<>>
       THEN pc' = "nexus_done"
       ELSE pc' = "state_loop"
    /\ state_i' = 1
    /\ results' = new_results(results)
    /\ UNCHANGED <<vda_option, exposure_df, exposure_error, pkg_exposure_df, pkg_warnings,
                   df_m, df_out, df, config, warnings, period,
                   first_trigger_month_for_state, state_results>>
    /\ UNCHANGED collector
    /\ UNCHANGED outside

\* for state in all_states: parameters, skips, choice of the threshold table.
analyze_nexus_state ==
    /\ pc = "state_loop"
    /\ state_i <= Len(all_states)
    /\ LET state == all_states[state_i]
           params == config[state]
       IN  IF ~has_state_params(state)
           THEN /\ warnings' = add_warning(warnings, no_config_warning(state))
                /\ state_i' = state_i + 1
                /\ UNCHANGED <<pc, period, first_trigger_month_for_state, state_results>>
           ELSE IF skip_state(params)
                   \/ state_df_for_thresholds(
                          state, params.marketplace_threshold_inclusion) = <<>>
           THEN /\ state_i' = state_i + 1
                /\ UNCHANGED <<pc, warnings, period, first_trigger_month_for_state,
                               state_results>>
           ELSE /\ pc' = "period_loop"
                /\ period' = min_month
                /\ first_trigger_month_for_state' = NaT
                /\ state_results' = <<>>
                /\ UNCHANGED <<warnings, state_i>>
    /\ UNCHANGED <<vda_option, exposure_df, exposure_error, pkg_exposure_df, pkg_warnings,
                   df_m, df_out, df, config, results>>
    /\ summary' = record_in_summary(summary, warnings, warnings')
    /\ calls' = calls \o new_messages(warnings, warnings')
    /\ UNCHANGED outside

\* for period in analysis_periods: one iteration of the loop body.
analyze_nexus_period ==
    /\ pc = "period_loop"
    /\ LET state == all_states[state_i]
           params == config[state]
           agg == _calculate_rolling_aggregates(
                      state_df_for_thresholds(state, params.marketplace_threshold_inclusion),
                      params.lookback_rule, params.lookback_months, period)
           row == nexus_row(state, period, params, agg, first_trigger_month_for_state)
       IN  /\ warnings' = IF agg.unsupported
                          THEN add_warning(warnings,
                                           unsupported_rule_warning(params.lookback_rule))
                          ELSE warnings
           /\ first_trigger_month_for_state' = row.first_trigger_month
           /\ IF period < max_month
              THEN /\ period' = period + 1
                   /\ state_results' = Append(state_results, row)
                   /\ UNCHANGED <<pc, state_i, results>>
              ELSE /\ results' = results \o Append(state_results, row)
                   /\ state_results' = <<>>
                   /\ state_i' = state_i + 1
                   /\ pc' = "state_loop"
                   /\ UNCHANGED period
    /\ UNCHANGED <<vda_option, exposure_df, exposure_error, pkg_exposure_df, pkg_warnings,
                   df_m, df_out, df, config>>
    /\ summary' = record_in_summary(summary, warnings, warnings')
    /\ calls' = calls \o new_messages(warnings, warnings')
    /\ UNCHANGED outside

\* After the last state: the summary table is returned.
analyze_nexus_end ==
    /\ pc = "state_loop"
    /\ state_i > Len(all_states)
    /\ pc' = "nexus_done"
    /\ UNCHANGED <<vda_option, exposure_df, exposure_error, pkg_exposure_df, pkg_warnings,
                   df_m, df_out, df, config, warnings, state_i, period,
                   first_trigger_month_for_state, state_results, results>>
    /\ UNCHANGED collector
    /\ UNCHANGED outside

\* ------------------------------- ExposureCalculator of src/exposure_calc.py
\* Variant: the exposure starts in the trigger month itself.
exposure_start_at_trigger(first) == first

\* exposure_start_month = first_trigger_month + 1
exposure_start_month(first) == first + 1

\* monthly_taxable_sales[(state == s) & (month_year >= exposure_start_month)]
\* with tax_rate and estimated_tax.
state_exposure_monthly(s, first, tax_rate) ==
    LET rows == SelectSeq(monthly_taxable_sales(s),
                          LAMBDA r : r.month_year >= exposure_start_month(first))
    IN  [i \in DOMAIN rows |-> base_row(rows[i], tax_rate)]

\* tax_rate is not None, converts to float and is not negative.
valid_tax_rate(tax_rate) == tax_rate # None /\ tax_rate # NotANumber /\ tax_rate >= 0

\* The two warnings of the tax_rate validation.
tax_rate_warning(s, tax_rate) ==
    IF tax_rate = None THEN <<"Missing or invalid tax_rate", s>>
    ELSE <<"Invalid tax_rate format", s, tax_rate>>

\* value if value is not None else default
IfNone(v, default) == IF v = None THEN default ELSE v

\* any(p < 0 for p in [vda_lookback_months, interest_rate_annual, penalty_rate])
invalid_vda_params(params) ==
    \/ IfNone(params.vda_lookback_cap, DefaultLookbackCap) < 0
    \/ IfNone(params.vda_interest_rate, DefaultInterestRate) < 0
    \/ IfNone(params.standard_penalty_rate, DefaultPenaltyRate) < 0

\* One iteration of the loop over the triggered states.  With VDA estimation
\* requested and valid parameters the iteration reaches
\*   vda_start_month = last_data_month - relativedelta(months=...)
\* which subtracts a relativedelta from a pandas Period: neither type supports
\* the operation and the TypeError leaves calculate_exposure.
exposure_state(s, first, acc) ==
    IF s \notin DOMAIN config
    THEN [acc EXCEPT !.warnings =
              add_warning(@, <<"No configuration found for state (exposure)", s>>)]
    ELSE IF ~valid_tax_rate(config[s].tax_rate)
    THEN [acc EXCEPT !.warnings = add_warning(@, tax_rate_warning(s, config[s].tax_rate))]
    ELSE LET rows == state_exposure_monthly(s, first, config[s].tax_rate)
             filled == [i \in DOMAIN rows |-> zero_fill(rows[i])]
         IN  IF rows = <<>> THEN acc
             ELSE IF vda_option # "Estimate" THEN [acc EXCEPT !.rows = @ \o filled]
             ELSE IF invalid_vda_params(config[s])
             THEN [acc EXCEPT !.rows = @ \o filled,
                              !.warnings = add_warning(@, <<"Invalid VDA parameters", s>>)]
             ELSE [acc EXCEPT !.raised = TRUE]

RECURSIVE exposure_loop(_, _)
\* for state, trigger_info in first_triggers.iterrows()
exposure_loop(i, acc) ==
    IF i > Len(StateOrder) \/ acc.raised THEN acc
    ELSE LET s == StateOrder[i]
             first == first_triggers(results, s)
         IN  IF first = NaT THEN exposure_loop(i + 1, acc)
             ELSE exposure_loop(i + 1, exposure_state(s, first, acc))

\* ExposureCalculator.calculate_exposure() on the loop analyzer's summary: the
\* whole call.  exposure_error records the exception that ends it, if any.
calculate_exposure ==
    /\ pc = "nexus_done"
    /\ IF df = <<>> \/ results = <<>> \/ taxable_sales_df = <<>>
       THEN UNCHANGED <<exposure_df, exposure_error, warnings>>
       ELSE LET out == exposure_loop(1, [rows |-> <<>>, warnings |-> warnings,
                                         raised |-> FALSE])
            IN  /\ exposure_df' = IF out.raised THEN <<>> ELSE out.rows
                /\ exposure_error' = IF out.raised THEN "TypeError" ELSE "none"
                /\ warnings' = out.warnings
    /\ pc' = "done"
    /\ UNCHANGED <<df, config, vda_option, state_i, period, first_trigger_month_for_state,
                   state_results, results, df_m, df_out, pkg_exposure_df, pkg_warnings>>
    /\ summary' = record_in_summary(summary, warnings, warnings')
    /\ calls' = calls \o new_messages(warnings, warnings')
    /\ UNCHANGED outside

\* --------------------------------------------------- the pipeline run again
\* The tables and the exception of a finished run.
RunOutcome(nexus, exposure, error) ==
    [done |-> TRUE, results |-> nexus, exposure_df |-> exposure, exposure_error |-> error]

\* No run has finished yet.
NoRun == [done |-> FALSE, results |-> <<>>, exposure_df |-> <<>>, exposure_error |-> "none"]

\* The workflow is run a second time on the same transactions and the same
\* configuration: analyze nexus, then calculate exposure, with everything the
\* first run left behind still in place (the ErrorCollector included).
run_again ==
    /\ pc = "done"
    /\ ~first_run.done
    /\ first_run' = RunOutcome(results, exposure_df, exposure_error)
    /\ pc' = "nexus"
    /\ UNCHANGED <<df, config, vda_option, warnings, state_i, period,
                   first_trigger_month_for_state, state_results, results, df_m, df_out,
                   exposure_df, exposure_error, pkg_exposure_df, pkg_warnings>>
    /\ UNCHANGED collector
    /\ UNCHANGED <<raw_sales, columns, sales_index, summary_in, trigger_dtype, pkg_error,
                   nexus_error, file, frame, pkg_frame>>

\* ------------------------------------ the tables as they are handed over
\* DatetimeIndex.to_period('M'): the month of a date, counted from 2024-01.
to_period(date) == (date[1] - BaseYear) * MonthsPerYear + (date[2] - 1)

\* pd.PeriodIndex(pd.to_datetime(strings), freq="M"): a month string parsed,
\* NaT for a null cell.
parse_month(str) ==
    IF str = NullStr THEN NaT ELSE (str[1] - BaseYear) * MonthsPerYear + (str[2] - 1)

\* Variant: the month_year strings of the table are kept as the months.
month_year_column_kept(sale) == parse_month(sale.month_year)

\* sales_df.set_index("invoice_date"); sales_df["month_year"] =
\* sales_df.index.to_period("M"): the month of a sale is the month of its date;
\* a month_year column that is not of Period dtype is overwritten.
month_of_sale(sale) == to_period(sale.invoice_date)

\* The sales table after the coercion, row by row.
indexed_sales ==
    [i \in DOMAIN raw_sales |->
        Txn(raw_sales[i].state, month_of_sale(raw_sales[i]), raw_sales[i].total_amount,
            raw_sales[i].invoice_number, raw_sales[i].channel, raw_sales[i].is_exempt)]

\* The nexus summary with first_trigger_month coerced to Period[M].
coerced_summary ==
    [i \in DOMAIN summary_in |->
        [state |-> summary_in[i].state,
         first_trigger_month |->
            IF trigger_dtype = "period" THEN summary_in[i].first_trigger_month
            ELSE parse_month(summary_in[i].first_trigger_month)]]

\* ExposureCalculator.__init__ of src/exposure_calc.py: the checks on the two
\* tables.  A first_trigger_month column that is not of Period dtype is
\* accepted only when it is all null; the sales table needs a DatetimeIndex.
exposure_init ==
    /\ pc = "handover"
    /\ exposure_error' =
          IF /\ summary_in # <<>>
             /\ trigger_dtype # "period"
             /\ \E i \in DOMAIN summary_in : summary_in[i].first_trigger_month # NullStr
          THEN "TypeError"
          ELSE IF sales_index # "DatetimeIndex" THEN "TypeError"
          ELSE "none"
    /\ pc' = "coerce"
    /\ UNCHANGED <<df, config, warnings, state_i, period, first_trigger_month_for_state,
                   state_results, results, df_m, df_out, vda_option, exposure_df,
                   pkg_exposure_df, pkg_warnings>>
    /\ UNCHANGED collector
    /\ UNCHANGED outside

\* calculate_exposure(sales_df, nexus_summary) of salt_nexus_automator, up to
\* the validated tables: the early exits, the index and month_year of the sales
\* table, the coercion of first_trigger_month.
pkg_coerce_inputs ==
    /\ pc = "coerce"
    /\ IF raw_sales = <<>> \/ summary_in = <<>>
       THEN /\ df' = <<>> /\ df_out' = <<>>
            /\ pc' = "vec_exposure"
            /\ UNCHANGED pkg_error
       ELSE IF sales_index # "DatetimeIndex" /\ "invoice_date" \notin columns
       THEN /\ pkg_error' = "TypeError"
            /\ pc' = "aborted"
            /\ UNCHANGED <<df, df_out>>
       ELSE /\ df' = indexed_sales
            /\ df_out' = coerced_summary
            /\ pc' = "vec_exposure"
            /\ UNCHANGED pkg_error
    /\ UNCHANGED <<config, warnings, state_i, period, first_trigger_month_for_state,
                   state_results, results, df_m, vda_option, exposure_df, exposure_error,
                   pkg_exposure_df, pkg_warnings>>
    /\ UNCHANGED collector
    /\ UNCHANGED <<raw_sales, columns, sales_index, summary_in, trigger_dtype, nexus_error,
                   first_run, file, frame, pkg_frame>>

\* ------------------------------------------- DataLoader and DataStandardizer
\* A missing cell (NaN, NaT, None).
NullCell == "NaN"

\* A table of the front of the pipeline: column labels, one dtype per column,
\* rows of cells (text), and the kind of its index.
Table(cols, types, rws, idx) ==
    [columns |-> cols, dtypes |-> types, rows |-> rws, index |-> idx]

\* pd.DataFrame()
EmptyFrame == Table(<<>>, <<>>, <<>>, "RangeIndex")

required_columns ==
    <<"date", "invoice_number", "invoice_date", "total_amount", "customer_name",
      "street_address", "city", "state", "zip_code", "sales_channel">>

optional_columns == <<"is_exempt", "taxability_code", "customer_id">>

\* str.lower().str.strip() on the column labels that occur.
lower_strip(label) ==
    CASE label = " Sales_Channel" -> "sales_channel"
      [] label = "State " -> "state"
      [] label = "Channel" -> "channel"
      [] OTHER -> label

\* DTYPE_MAP
DTYPE_MAP == [invoice_number |-> "string", total_amount |-> "float64", zip_code |-> "string"]

\* df.astype({k: v for k, v in DTYPE_MAP.items() if k in df.columns}): the
\* dtype of every mapped column; the cells of the tables considered convert.
astype(cols, types) ==
    [i \in DOMAIN cols |-> IF cols[i] \in DOMAIN DTYPE_MAP THEN DTYPE_MAP[cols[i]] ELSE types[i]]

\* [c for c in self.required_columns if c not in df.columns]
missing_columns(cols) == SelectSeq(required_columns, LAMBDA c : c \notin Range(cols))

missing_columns_warning(missing) == <<"missing required columns">> \o missing

\* Variant: the legacy label is left as it is.
rename_skipped(cols) == cols

\* df.rename(columns={"sales_channel": "channel"}) unless a channel column exists.
rename_sales_channel(cols) ==
    IF "sales_channel" \in Range(cols) /\ "channel" \notin Range(cols)
    THEN [i \in DOMAIN cols |-> IF cols[i] = "sales_channel" THEN "channel" ELSE cols[i]]
    ELSE cols

\* DataLoader._postprocess of src/ingestion.py on a table: the returned table.
postprocessed(t) ==
    LET cols == [i \in DOMAIN t.columns |-> lower_strip(t.columns[i])]
    IN  IF missing_columns(cols) # <<>> THEN EmptyFrame
        ELSE Table(cols, astype(cols, t.dtypes), t.rows, t.index)

\* DataLoader._postprocess of salt_nexus_automator/ingestion.py on a table.
pkg_postprocessed(t) ==
    LET cols == [i \in DOMAIN t.columns |-> lower_strip(t.columns[i])]
        renamed == rename_sales_channel(cols)
    IN  IF missing_columns(cols) # <<>> THEN EmptyFrame
        ELSE Table(renamed, astype(renamed, t.dtypes), t.rows, t.index)

\* df.empty: no rows or no columns.
IsEmpty(t) == t.rows = <<>> \/ t.columns = <<>>

HasColumn(t, name) == name \in Range(t.columns)

\* The position of a column in a table that has it.
ColumnOf(t, name) == CHOOSE i \in DOMAIN t.columns : t.columns[i] = name

\* pd.to_datetime(cell, errors='coerce')
to_datetime(cell) == IF cell \in {"2024-01-15", "2024-02-20"} THEN cell ELSE NullCell

\* pd.to_numeric(cell, errors='coerce')
to_numeric(cell) == IF cell \in {"100.0", "25.0"} THEN cell ELSE NullCell

\* fillna('').astype(str).str.strip()
fill_strip(cell) ==
    CASE cell = NullCell -> ""
      [] cell = " ny" -> "ny"
      [] OTHER -> cell

\* str.upper() on the state values that occur.
upper(cell) ==
    CASE cell = "ny" -> "NY"
      [] cell = "Calif" -> "CALIF"
      [] OTHER -> cell

\* str.extract(r'^(\d{5})').fillna('')
zip5(cell) == IF cell = "90210-1234" THEN "90210" ELSE IF cell = "90210" THEN cell ELSE ""

\* fillna('').astype(str)
fill_str(cell) == IF cell = NullCell THEN "" ELSE cell

\* One conversion applied to a cell of the named column.
converted(name, step, cell) ==
    CASE step = "dates" /\ name \in {"date", "invoice_date"} -> to_datetime(cell)
      [] step = "addresses" /\ name \in {"street_address", "city"} -> fill_strip(cell)
      [] step = "addresses" /\ name = "state" -> upper(fill_strip(cell))
      [] step = "addresses" /\ name = "zip_code" -> zip5(fill_strip(cell))
      [] step = "types" /\ name = "total_amount" -> to_numeric(cell)
      [] step = "types" /\ name \in {"invoice_number", "customer_id"} -> fill_str(cell)
      [] OTHER -> cell

\* The rows of a table after one step of standardize.
step_rows(t, step) ==
    [r \in DOMAIN t.rows |->
        [i \in DOMAIN t.columns |-> converted(t.columns[i], step, t.rows[r][i])]]

\* The number of cells of a column that a step turned into missing cells.
newly_null(t, rws, name) ==
    IF ~HasColumn(t, name) THEN 0
    ELSE Cardinality({r \in DOMAIN rws :
                        /\ rws[r][ColumnOf(t, name)] = NullCell
                        /\ t.rows[r][ColumnOf(t, name)] # NullCell})

\* The rows with potentially invalid state abbreviations.
invalid_states(t, rws) ==
    IF ~HasColumn(t, "state") THEN {}
    ELSE {r \in DOMAIN rws : rws[r][ColumnOf(t, "state")] \in {"CALIF"}}

\* The invoice numbers that occur on more than one row, empty ones aside.
duplicate_invoices(t, rws) ==
    IF ~HasColumn(t, "invoice_number") THEN {}
    ELSE LET c == ColumnOf(t, "invoice_number")
         IN  {rws[r][c] : r \in {q \in DOMAIN rws :
                                   /\ rws[q][c] # ""
                                   /\ \E p \in DOMAIN rws : p # q /\ rws[p][c] = rws[q][c]}}

critical_cols == <<"date", "total_amount", "state", "invoice_number">>

\* dropna(subset=critical_cols) and df[df['state'] != '']: a row is kept.
kept(t, row) ==
    /\ \A k \in DOMAIN critical_cols : row[ColumnOf(t, critical_cols[k])] # NullCell
    /\ row[ColumnOf(t, "state")] # ""

RECURSIVE warn_all(_, _)
\* add_warning for each message of a list, in order.
warn_all(w, msgs) ==
    IF msgs = <<>> THEN w ELSE warn_all(add_warning(w, Head(msgs)), Tail(msgs))

\* The messages standardize records for a table, in the order of its steps.
standardize_messages(t) ==
    LET dated == step_rows(t, "dates")
        t1 == [t EXCEPT !.rows = dated]
        cleaned == step_rows(t1, "addresses")
        t2 == [t EXCEPT !.rows = cleaned]
        typed == step_rows(t2, "types")
        dropped == Cardinality({r \in DOMAIN typed : ~kept(t, typed[r])})
    IN  (IF newly_null(t, dated, "date") > 0
         THEN <<<<"could not be parsed as dates", "date", newly_null(t, dated, "date")>>>>
         ELSE <<>>)
        \o (IF newly_null(t, dated, "invoice_date") > 0
            THEN <<<<"could not be parsed as dates", "invoice_date",
                     newly_null(t, dated, "invoice_date")>>>>
            ELSE <<>>)
        \o (IF invalid_states(t, cleaned) # {}
            THEN <<<<"potentially invalid state abbreviations">>>> ELSE <<>>)
        \o (IF newly_null(t2, typed, "total_amount") > 0
            THEN <<<<"could not be converted to numeric", "total_amount",
                     Cardinality({r \in DOMAIN typed :
                                    typed[r][ColumnOf(t, "total_amount")] = NullCell})>>>>
            ELSE <<>>)
        \o (IF duplicate_invoices(t, typed) # {}
            THEN <<<<"potentially duplicate invoice numbers", "invoice_number",
                     Cardinality(duplicate_invoices(t, typed))>>>>
            ELSE <<>>)
        \o (IF dropped > 0
            THEN <<<<"rows dropped due to missing critical values", "rows", dropped>>>>
            ELSE <<>>)

\* The dtype of a column after standardize.
standardized_dtype(name, type) ==
    CASE name \in {"date", "invoice_date"} -> "datetime64"
      [] name \in {"street_address", "city", "state", "zip_code", "invoice_number",
                   "customer_id"} -> "object"
      [] name = "total_amount" -> "float64"
      [] OTHER -> type

\* DataStandardizer.standardize on a table that is not empty: the returned
\* table.  The rows that pass keep the labels they had; no step sets an index.
standardized(t) ==
    LET dated == step_rows(t, "dates")
        cleaned == step_rows([t EXCEPT !.rows = dated], "addresses")
        typed == step_rows([t EXCEPT !.rows = cleaned], "types")
    IN  Table(t.columns,
              [i \in DOMAIN t.columns |-> standardized_dtype(t.columns[i], t.dtypes[i])],
              SelectSeq(typed, LAMBDA row : kept(t, row)),
              t.index)

\* pd.concat(frames, ignore_index=True) of the accepted frames of one file.
concat_ignore_index(t) == [t EXCEPT !.index = "RangeIndex"]

\* pd.DataFrame(columns=self.required_columns + self.optional_columns)
no_valid_data ==
    Table(required_columns \o optional_columns,
          [i \in 1..(Len(required_columns) + Len(optional_columns)) |-> "object"],
          <<>>, "RangeIndex")

\* The variables of the analysis and of the hand-over, which the front of the
\* pipeline does not touch.
analysis == <<df, config, state_i, period, first_trigger_month_for_state, state_results,
              results, df_m, df_out, vda_option, exposure_df, exposure_error,
              pkg_exposure_df>>

handed == <<raw_sales, columns, sales_index, summary_in, trigger_dtype, pkg_error, first_run>>

\* DataLoader._postprocess(df, source_name) of salt_nexus_automator, called on
\* the table of a file.
pkg_postprocess ==
    /\ pc = "file"
    /\ pkg_frame' = pkg_postprocessed(file)
    /\ LET missing == missing_columns([i \in DOMAIN file.columns |->
                                          lower_strip(file.columns[i])])
       IN  pkg_warnings' = IF missing # <<>>
                           THEN add_warning(pkg_warnings, missing_columns_warning(missing))
                           ELSE pkg_warnings
    /\ pc' = "postprocess"
    /\ UNCHANGED <<analysis, handed, warnings, file, frame, nexus_error>>
    /\ UNCHANGED collector

\* DataLoader._postprocess(df, source_name) of src/ingestion.py, called on the
\* table of a file.
_postprocess ==
    /\ pc = "postprocess"
    /\ frame' = postprocessed(file)
    /\ LET missing == missing_columns([i \in DOMAIN file.columns |->
                                          lower_strip(file.columns[i])])
       IN  warnings' = IF missing # <<>>
                       THEN add_warning(warnings, missing_columns_warning(missing))
                       ELSE warnings
    /\ pc' = "load"
    /\ UNCHANGED <<analysis, handed, pkg_warnings, file, pkg_frame, nexus_error>>
    /\ summary' = record_in_summary(summary, warnings, warnings')
    /\ calls' = calls \o new_messages(warnings, warnings')

\* DataLoader.load_data of src/ingestion.py for one file: read, _postprocess,
\* the empty check, the concatenation.
load_data ==
    /\ pc = "load"
    /\ LET missing == missing_columns([i \in DOMAIN file.columns |->
                                          lower_strip(file.columns[i])])
           read == postprocessed(file)
           w1 == IF missing # <<>>
                 THEN add_warning(warnings, missing_columns_warning(missing))
                 ELSE warnings
       IN  IF IsEmpty(read)
           THEN /\ frame' = no_valid_data
                /\ warnings' = warn_all(w1, <<<<"produced 0 rows after validation">>,
                                              <<"No valid data loaded">>>>)
           ELSE /\ frame' = concat_ignore_index(read)
                /\ warnings' = w1
    /\ pc' = "standardize"
    /\ UNCHANGED <<analysis, handed, pkg_warnings, file, pkg_frame, nexus_error>>
    /\ summary' = record_in_summary(summary, warnings, warnings')
    /\ calls' = calls \o new_messages(warnings, warnings')

\* DataStandardizer(raw_df, error_collector).standardize()
standardize ==
    /\ pc = "standardize"
    /\ IF IsEmpty(frame)
       THEN UNCHANGED <<frame, warnings>>
       ELSE /\ frame' = standardized(frame)
            /\ warnings' = warn_all(warnings, standardize_messages(frame))
    /\ pc' = "nexus_init"
    /\ UNCHANGED <<analysis, handed, pkg_warnings, file, pkg_frame, nexus_error>>
    /\ summary' = record_in_summary(summary, warnings, warnings')
    /\ calls' = calls \o new_messages(warnings, warnings')

\* NexusAnalyzer(std_df, state_config, error_collector): the constructor's
\* check of the index.
nexus_init ==
    /\ pc = "nexus_init"
    /\ IF frame.index # "DatetimeIndex"
       THEN nexus_error' = "ValueError" /\ pc' = "aborted"
       ELSE nexus_error' = nexus_error /\ pc' = "accepted"
    /\ UNCHANGED <<analysis, handed, warnings, pkg_warnings, file, frame, pkg_frame>>
    /\ UNCHANGED collector

\* ================================================================ claims
\* analyze_nexus has returned its table (results).
NexusReturned == pc \in {"nexus_done", "done"}

\* Rows i, j of a table belong to one state, i for an earlier month than j.
Earlier(rows, i, j) ==
    rows[i].state = rows[j].state /\ rows[i].month_year < rows[j].month_year

\* The months of a state's rows on which the nexus flag is set.
TriggeredMonths(rows, s) ==
    {rows[i].month_year : i \in {j \in DOMAIN rows :
                                   rows[j].state = s /\ rows[j].nexus_triggered}}

VecTriggeredMonths(rows, s) ==
    {rows[i].month_year : i \in {j \in DOMAIN rows :
                                   rows[j].state = s
                                   /\ (rows[j].sales_met \/ rows[j].txn_met)}}

\* The non-null first_trigger_month values on a state's rows.
TriggerValues(rows, s) ==
    {rows[i].first_trigger_month : i \in {j \in DOMAIN rows :
                                            rows[j].state = s
                                            /\ rows[j].first_trigger_month # NaT}}

MinOrNaT(S) == IF S = {} THEN NaT ELSE SetMin(S)

RECURSIVE RefSum(_)
\* Sum of total_amount over a set of row numbers of df.
RefSum(I) ==
    IF I = {} THEN 0
    ELSE LET i == CHOOSE x \in I : TRUE
         IN  df[i].total_amount + RefSum(I \ {i})

\* C1 as stated: once nexus_triggered is true on the row of a month, it is true
\* on the row of every later month of that state.
C1_TriggeredFlagNeverReverses ==
    NexusReturned =>
        \A i, j \in DOMAIN results :
            (Earlier(results, i, j) /\ results[i].nexus_triggered)
                => results[j].nexus_triggered

\* C1 amended: once nexus_triggered is true on the row of a month,
\* first_trigger_month is set on that row and has the same value on the row of
\* every later month of the state; nexus_triggered itself is the month's own
\* sales_met or txn_met.
C1_TriggerMonthPinned ==
    NexusReturned =>
        /\ \A i, j \in DOMAIN results :
              (Earlier(results, i, j) /\ results[i].nexus_triggered)
                  => /\ results[i].first_trigger_month # NaT
                     /\ results[j].first_trigger_month = results[i].first_trigger_month
        /\ \A i \in DOMAIN results :
              results[i].nexus_triggered
                  <=> (results[i].sales_met \/ results[i].txn_met)

\* C1 witness: a finished run in which a state is triggered in one month, not
\* triggered in a later month and triggered again after that.
C1_Witness ==
    /\ NexusReturned
    /\ \E i, j, k \in DOMAIN results :
          /\ Earlier(results, i, j) /\ Earlier(results, j, k)
          /\ results[i].nexus_triggered
          /\ ~results[j].nexus_triggered
          /\ results[k].nexus_triggered

\* C2: for every state the first_trigger_month (the non-null value its rows
\* carry) is the minimum month among the state's triggered rows, and no row
\* carries one if and only if no row of the state is triggered; in the result of
\* the loop analyzer and of the vectorised analyzer.
C2_FirstTriggerIsMinTriggeredMonth ==
    NexusReturned =>
        /\ \A s \in States :
              /\ TriggerValues(results, s) \subseteq {MinOrNaT(TriggeredMonths(results, s))}
              /\ (TriggerValues(results, s) = {}) <=> (TriggeredMonths(results, s) = {})
        /\ \A s \in States :
              /\ TriggerValues(df_out, s) \subseteq {MinOrNaT(VecTriggeredMonths(df_out, s))}
              /\ (TriggerValues(df_out, s) = {}) <=> (VecTriggeredMonths(df_out, s) = {})

\* C2 witness: a finished run with a state that is not triggered in its first
\* month and triggered in two later months.
C2_Witness ==
    /\ NexusReturned
    /\ \E i, j, k \in DOMAIN results :
          /\ Earlier(results, i, j) /\ Earlier(results, j, k)
          /\ ~results[i].nexus_triggered
          /\ results[j].nexus_triggered
          /\ results[k].nexus_triggered
          /\ results[k].first_trigger_month = results[j].month_year

\* C3 as stated: first_trigger_month has the same value on every row of a state.
C3_FirstTriggerSameOnEveryRow ==
    NexusReturned =>
        \A i, j \in DOMAIN results :
            results[i].state = results[j].state
                => results[i].first_trigger_month = results[j].first_trigger_month

\* C3 amended: in the loop analyzer's result first_trigger_month is null on the
\* rows of the months before the state's trigger month and equals the trigger
\* month on the row of that month and of every later month (null on every row
\* of a state that never triggers); in the vectorised analyzer's result it has
\* one value on every row of a state.
C3_FirstTriggerNullBeforeThenConstant ==
    NexusReturned =>
        /\ \A i \in DOMAIN results :
              LET r == results[i]
                  upto == {m \in TriggeredMonths(results, r.state) : m <= r.month_year}
              IN  r.first_trigger_month = MinOrNaT(upto)
        /\ \A i, j \in DOMAIN df_out :
              df_out[i].state = df_out[j].state
                  => df_out[i].first_trigger_month = df_out[j].first_trigger_month

\* C3 witness: a finished run in which a state has a row with a null
\* first_trigger_month before its trigger month, while the vectorised result
\* carries the trigger month on a row of an earlier month.
C3_Witness ==
    /\ NexusReturned
    /\ \E i, j \in DOMAIN results :
          /\ Earlier(results, i, j)
          /\ results[i].first_trigger_month = NaT
          /\ results[j].first_trigger_month = results[j].month_year
    /\ \E i \in DOMAIN df_out :
          /\ df_out[i].first_trigger_month # NaT
          /\ df_out[i].month_year < df_out[i].first_trigger_month

\* The calendar window sum: the amounts of the rows of df of state s (marketplace
\* rows left out when mp is false) in the DefaultWindow months ending at month m.
CalendarWindowSales(s, m, mp) ==
    RefSum({i \in DOMAIN df :
              /\ df[i].state = s
              /\ (mp \/ ~is_marketplace_sale(df[i]))
              /\ df[i].month > m - DefaultWindow
              /\ df[i].month <= m})

\* C5: the rolling 12-month sales basis of a state-month is the sum of the
\* state's sales over the 12 calendar months ending at that month, in the loop
\* analyzer's rolling_12m rows and in add_rolling_12m's sales_12m.
C5_RollingSalesIsCalendarWindowSum ==
    NexusReturned =>
        /\ \A i \in DOMAIN results :
              results[i].lookback_rule = "rolling_12m"
                  => results[i].rolling_sales =
                         CalendarWindowSales(
                             results[i].state, results[i].month_year,
                             config[results[i].state].marketplace_threshold_inclusion)
        /\ \A i \in DOMAIN df_m :
              df_m[i].sales_12m = CalendarWindowSales(df_m[i].state, df_m[i].month_year, FALSE)

\* C6: with a null sales threshold sales_met is false on every row and with a
\* null transaction threshold txn_met is false on every row, in the loop
\* analyzer and in evaluate_thresholds.
C6_NullThresholdNeverMet ==
    NexusReturned =>
        /\ \A i \in DOMAIN results :
              LET c == config[results[i].state]
              IN  /\ c.sales_threshold = None => ~results[i].sales_met
                  /\ c.transaction_threshold = None => ~results[i].txn_met
        /\ \A i \in DOMAIN df_out :
              LET c == config[df_out[i].state]
              IN  /\ c.sales_threshold = None => ~df_out[i].sales_met
                  /\ c.transaction_threshold = None => ~df_out[i].txn_met

\* C6 witness: a row of a state with a null sales threshold whose sales basis is
\* positive, in a run where the state's transaction threshold is met.
C6_Witness ==
    /\ NexusReturned
    /\ \E i \in DOMAIN results :
          /\ config[results[i].state].sales_threshold = None
          /\ results[i].rolling_sales > 0
          /\ results[i].txn_met

StandardRules == {"rolling_12m", "calendar_prev_curr", "calendar_prev", "none"}
ProxyRules == {"rolling_4q", "accounting_year"}

\* C9 as stated: a state whose rule is not rolling_12m, calendar_prev_curr,
\* calendar_prev or none has basis 0/0 on every row and a warning in the
\* ErrorCollector.
C9_NonStandardRuleIsZeroWithWarning ==
    NexusReturned =>
        \A i \in DOMAIN results :
            results[i].lookback_rule \notin StandardRules
                => /\ results[i].rolling_sales = 0
                   /\ results[i].rolling_transactions = 0
                   /\ unsupported_rule_warning(results[i].lookback_rule) \in Range(warnings)

\* C9 amended: in the loop analyzer a rule that is none of rolling_12m,
\* calendar_prev_curr, calendar_prev, rolling_4q, accounting_year, none gives
\* basis 0/0 on every row and a warning in the ErrorCollector; rolling_4q is
\* evaluated with the rolling 12-month window sum and accounting_year with the
\* previous calendar year's sum, both without a warning.
C9_UnknownRuleIsZeroWithWarning ==
    NexusReturned =>
        \A i \in DOMAIN results :
            LET r == results[i]
                prev == RefSum({k \in DOMAIN df :
                                  /\ df[k].state = r.state
                                  /\ Year(df[k].month) = Year(r.month_year) - 1})
            IN  /\ r.lookback_rule \notin (StandardRules \cup ProxyRules)
                    => /\ r.rolling_sales = 0
                       /\ r.rolling_transactions = 0
                       /\ unsupported_rule_warning(r.lookback_rule) \in Range(warnings)
                /\ r.lookback_rule \in (StandardRules \cup ProxyRules)
                    => unsupported_rule_warning(r.lookback_rule) \notin Range(warnings)
                /\ r.lookback_rule = "rolling_4q"
                    => r.rolling_sales = CalendarWindowSales(r.state, r.month_year, TRUE)
                /\ r.lookback_rule = "accounting_year" => r.rolling_sales = prev

\* C9 witness: a finished run with a row of an unknown rule in a month in which
\* the state's 12-month sales are above its threshold, and the warning recorded.
C9_Witness ==
    /\ NexusReturned
    /\ \E i \in DOMAIN results :
          /\ results[i].lookback_rule = "fiscal_quarter"
          /\ CalendarWindowSales(results[i].state, results[i].month_year, TRUE) >= 20
          /\ ~results[i].nexus_triggered
    /\ Len(warnings) >= 1

\* A state qualifies for analysis: it occurs in the input, has a configuration
\* entry, a non-null threshold and a rule other than none.
Qualifies(s) ==
    /\ \E i \in DOMAIN df : df[i].state = s
    /\ s \in DOMAIN config
    /\ (config[s].sales_threshold # None \/ config[s].transaction_threshold # None)
    /\ config[s].lookback_rule # "none"

\* A state has a transaction that counts toward its threshold basis.
HasBasisRows(s) ==
    \E i \in DOMAIN df :
        /\ df[i].state = s
        /\ (config[s].marketplace_threshold_inclusion \/ ~is_marketplace_sale(df[i]))

\* The rows of a state are one per month of the analysis period, in month order.
OneRowPerMonth(rows, s) ==
    LET mine == SelectSeq(rows, LAMBDA r : r.state = s)
    IN  /\ Len(mine) = max_month - min_month + 1
        /\ \A k \in DOMAIN mine : mine[k].month_year = min_month + k - 1

\* C10 as stated: every qualifying state has exactly one nexus row per month of
\* the analysis period.
C10_QualifyingStateHasRowPerMonth ==
    NexusReturned =>
        \A s \in States : Qualifies(s) => OneRowPerMonth(results, s)

\* C10 amended: every qualifying state with at least one transaction that
\* counts toward its threshold basis (a non-marketplace one when its
\* configuration excludes marketplace sales) has exactly one nexus row per month
\* of the analysis period, also when no threshold is ever met; every other state
\* has no row.
C10_StateWithBasisRowsHasRowPerMonth ==
    NexusReturned =>
        \A s \in States :
            IF Qualifies(s) /\ HasBasisRows(s)
            THEN OneRowPerMonth(results, s)
            ELSE \A i \in DOMAIN results : results[i].state # s

\* C10 witness: a finished run over two or more months with a state that
\* excludes marketplace sales, has a marketplace and a direct transaction, is
\* never triggered and has its row per month.
C10_Witness ==
    /\ NexusReturned
    /\ df # <<>>
    /\ max_month > min_month
    /\ \E s \in States :
          /\ Qualifies(s) /\ HasBasisRows(s)
          /\ ~config[s].marketplace_threshold_inclusion
          /\ \E i \in DOMAIN df : df[i].state = s /\ is_marketplace_sale(df[i])
          /\ TriggeredMonths(results, s) = {}
          /\ OneRowPerMonth(results, s)

\* ------------------------------------------------------------ exposure claims
ExposureReturned == pc = "done"

\* The rows of one state in an exposure table.
ExposureRows(rows, s) == SelectSeq(rows, LAMBDA r : r.state = s)

\* The taxable months of a state up to and including a month.
TaxableMonthsUpTo(s, m) ==
    {taxable_sales_df[i].month :
        i \in {j \in DOMAIN taxable_sales_df :
                 taxable_sales_df[j].state = s /\ taxable_sales_df[j].month <= m}}

\* C4: every exposure row of a state lies in a month strictly after the state's
\* first_trigger_month, in the table of either ExposureCalculator.
C4_ExposureRowsAfterTriggerMonth ==
    ExposureReturned =>
        /\ \A i \in DOMAIN exposure_df :
              /\ first_triggers(results, exposure_df[i].state) # NaT
              /\ exposure_df[i].month_year > first_triggers(results, exposure_df[i].state)
        /\ \A i \in DOMAIN pkg_exposure_df :
              /\ first_triggers(df_out, pkg_exposure_df[i].state) # NaT
              /\ pkg_exposure_df[i].month_year
                    > first_triggers(df_out, pkg_exposure_df[i].state)

\* C4 witness: both calculators returned rows for CA although CA has taxable
\* sales in its trigger month.
C4_Witness ==
    /\ ExposureReturned
    /\ ExposureRows(exposure_df, "CA") # <<>>
    /\ ExposureRows(pkg_exposure_df, "CA") # <<>>
    /\ first_triggers(results, "CA") \in TaxableMonthsUpTo("CA", first_triggers(results, "CA"))
    /\ first_triggers(df_out, "CA") \in TaxableMonthsUpTo("CA", first_triggers(df_out, "CA"))

\* The lookback cap each calculator works with.
EffectiveCap(s) == IfNone(config[s].vda_lookback_cap, DefaultLookbackCap)
PkgEffectiveCap(s) == OrDefault(config[s].vda_lookback_cap, DefaultLookbackCap)

\* The number of months from the first exposure month to the last data month.
WindowLength(first) == last_data_month - first

SavingsSum(rows, s) ==
    SumField(ExposureRows(rows, s), "estimated_vda_savings", 1, Len(ExposureRows(rows, s)))

\* C7: with the penalty waived and a lookback cap that covers the whole exposure
\* window, the estimated_vda_savings of a state's exposure rows sum to a
\* non-negative amount, returns and credits included.
C7_VdaSavingsSumNonNegative ==
    ExposureReturned =>
        \A s \in States :
            (s \in DOMAIN config /\ config[s].vda_penalty_waived) =>
                /\ (/\ ExposureRows(exposure_df, s) # <<>>
                    /\ EffectiveCap(s) >= WindowLength(first_triggers(results, s)))
                       => SavingsSum(exposure_df, s) >= 0
                /\ (/\ ExposureRows(pkg_exposure_df, s) # <<>>
                    /\ PkgEffectiveCap(s) >= WindowLength(first_triggers(df_out, s)))
                       => SavingsSum(pkg_exposure_df, s) >= 0

\* C8: full_interest and vda_interest are never negative on an exposure row.
C8_InterestNeverNegative ==
    ExposureReturned =>
        /\ \A i \in DOMAIN exposure_df :
              exposure_df[i].full_interest >= 0 /\ exposure_df[i].vda_interest >= 0
        /\ \A i \in DOMAIN pkg_exposure_df :
              pkg_exposure_df[i].full_interest >= 0 /\ pkg_exposure_df[i].vda_interest >= 0

\* ------------------------------------------------------------ claims C11..C20
\* The rows of one state in a nexus table.
NexusRows(rows, s) == SelectSeq(rows, LAMBDA r : r.state = s)

\* C11: a state configured with lookback_rule none has no row in the nexus
\* result, and so no first_trigger_month, in the loop analyzer's table and in
\* the vectorised analyzer's table.
C11_NoneRuleStateHasNoRows ==
    NexusReturned =>
        \A s \in DOMAIN config :
            config[s].lookback_rule = "none"
                => /\ NexusRows(results, s) = <<>>
                   /\ NexusRows(df_out, s) = <<>>

\* The number of times a message is in a warning list.
Occurrences(w, msg) == Cardinality({i \in DOMAIN w : w[i] = msg})

\* A state occurs in the transactions and has no configuration entry.
Unconfigured(s) == (\E i \in DOMAIN df : df[i].state = s) /\ s \notin DOMAIN config

\* C12: a state of the transactions without a configuration entry has no nexus
\* row and no exposure row, its warning is in the ErrorCollector exactly once,
\* and recording a message the collector already holds leaves it unchanged.
C12_UnconfiguredStateSkippedWithOneWarning ==
    ExposureReturned =>
        /\ \A s \in States :
              Unconfigured(s)
                  => /\ NexusRows(results, s) = <<>>
                     /\ NexusRows(df_out, s) = <<>>
                     /\ ExposureRows(exposure_df, s) = <<>>
                     /\ ExposureRows(pkg_exposure_df, s) = <<>>
                     /\ Occurrences(warnings, no_config_warning(s)) = 1
        /\ \A msg \in Range(warnings) : add_warning(warnings, msg) = warnings

\* C12 witness: a finished run in which NY has transactions and no configuration
\* entry while CA, configured, has its nexus rows.
C12_Witness ==
    /\ ExposureReturned
    /\ Unconfigured("NY")
    /\ no_config_warning("NY") \in Range(warnings)
    /\ NexusRows(results, "CA") # <<>>

\* The amounts of the rows of df of state s in month m, marketplace rows left
\* out when mp is false.
MonthSales(s, m, mp) ==
    RefSum({i \in DOMAIN df :
              /\ df[i].state = s
              /\ df[i].month = m
              /\ (mp \/ ~is_marketplace_sale(df[i]))})

\* C13: the basis of a state that excludes marketplace sales is computed from
\* its non-marketplace transactions only, and the basis of a state that
\* includes them from all its transactions: the rolling_12m sales of the loop
\* analyzer's rows, and the monthly sales of the vectorised analyzer's table,
\* which has a row for every month in which the state has a counted transaction.
C13_MarketplaceFilterPerState ==
    NexusReturned =>
        /\ \A i \in DOMAIN results :
              results[i].lookback_rule = "rolling_12m"
                  => results[i].rolling_sales =
                         CalendarWindowSales(
                             results[i].state, results[i].month_year,
                             config[results[i].state].marketplace_threshold_inclusion)
        /\ \A s \in DOMAIN config :
              /\ \A i \in DOMAIN df_m :
                    df_m[i].state = s
                        => df_m[i].sales =
                               MonthSales(s, df_m[i].month_year,
                                          config[s].marketplace_threshold_inclusion)
              /\ \A k \in DOMAIN df :
                    (/\ df[k].state = s
                     /\ (config[s].marketplace_threshold_inclusion
                            \/ ~is_marketplace_sale(df[k])))
                        => \E i \in DOMAIN df_m :
                              df_m[i].state = s /\ df_m[i].month_year = df[k].month

\* The distinct invoice numbers of the rows of df of state s in the months
\* lo..hi that have a nonzero amount, marketplace rows left out when mp is false.
NonZeroInvoices(s, lo, hi, mp) ==
    {df[i].invoice_number :
        i \in {j \in DOMAIN df :
                 /\ df[j].state = s
                 /\ df[j].month >= lo /\ df[j].month <= hi
                 /\ (mp \/ ~is_marketplace_sale(df[j]))
                 /\ df[j].total_amount # 0}}

\* C14: the transaction basis counts the distinct invoices with a transaction
\* of nonzero amount: the rolling_12m transactions of the loop analyzer's rows
\* over their window, and the monthly txns of monthly_state_summary over the
\* month's (non-marketplace) rows.
C14_TransactionBasisCountsNonZeroInvoices ==
    NexusReturned =>
        /\ \A i \in DOMAIN results :
              results[i].lookback_rule = "rolling_12m"
                  => results[i].rolling_transactions =
                         Cardinality(NonZeroInvoices(
                             results[i].state,
                             results[i].month_year - (DefaultWindow - 1),
                             results[i].month_year,
                             config[results[i].state].marketplace_threshold_inclusion))
        /\ \A i \in DOMAIN df_m :
              df_m[i].txns =
                  Cardinality(NonZeroInvoices(df_m[i].state, df_m[i].month_year,
                                              df_m[i].month_year, FALSE))

\* ---------------------------------------------------------------- claims C15
\* The worked scenario is the input and both calls have returned.
ScenarioRun == ExposureReturned /\ df = ScenarioDf /\ config = ScenarioConfig

RateUsable(rate) == rate # None /\ rate # NotANumber /\ rate >= 0

\* State s is configured with an unusable tax rate and triggered in a summary.
InvalidRateTriggered(nexus_summary, s) ==
    /\ s \in DOMAIN config
    /\ ~RateUsable(config[s].tax_rate)
    /\ first_triggers(nexus_summary, s) # NaT

\* The rows state t contributes when it is the only triggered state.
RowsAlone(t) ==
    IF first_triggers(results, t) = NaT \/ taxable_sales_df = <<>> THEN <<>>
    ELSE exposure_state(t, first_triggers(results, t),
                        [rows |-> <<>>, warnings |-> <<>>, raised |-> FALSE]).rows

PkgRowsAlone(t) ==
    IF first_triggers(df_out, t) = NaT \/ taxable_sales_df = <<>> THEN <<>>
    ELSE pkg_state_rows(t, first_triggers(df_out, t))

\* C16: a triggered state with a missing, non-numeric or negative tax_rate has
\* no exposure row, a warning about its tax_rate is recorded, and every other
\* state has the rows it has when it is the only triggered state.
C16_InvalidTaxRateStateSkippedWithWarning ==
    ExposureReturned =>
        \A s \in States :
            /\ InvalidRateTriggered(results, s)
                  => /\ ExposureRows(exposure_df, s) = <<>>
                     /\ tax_rate_warning(s, config[s].tax_rate) \in Range(warnings)
                     /\ \A t \in States \ {s} : ExposureRows(exposure_df, t) = RowsAlone(t)
            /\ InvalidRateTriggered(df_out, s)
                  => /\ ExposureRows(pkg_exposure_df, s) = <<>>
                     /\ <<"Invalid or missing tax_rate", s>> \in Range(pkg_warnings)
                     /\ \A t \in States \ {s} :
                           ExposureRows(pkg_exposure_df, t) = PkgRowsAlone(t)

\* ---------------------------------------------------------------- claims C17
\* The amounts of the non-exempt transactions of state s in month m, summed.
NonExemptSales(s, m) ==
    RefSum({i \in DOMAIN df : df[i].state = s /\ df[i].month = m /\ ~df[i].is_exempt})

\* A row reports the non-exempt sales of its state and month and the tax on
\* them at the state's configured rate.
TaxOnNonExemptSales(r) ==
    /\ r.taxable_sales = NonExemptSales(r.state, r.month_year)
    /\ r.state \in DOMAIN config
    /\ r.tax_rate = config[r.state].tax_rate
    /\ r.estimated_tax = r.taxable_sales * config[r.state].tax_rate * (100 * MonthsPerYear)

\* C17: on every exposure row, of either calculator, taxable_sales is the sum of
\* the state's non-exempt amounts of that month and estimated_tax is
\* taxable_sales times the state's configured tax rate.
C17_EstimatedTaxIsTaxableSalesTimesRate ==
    ExposureReturned =>
        /\ \A i \in DOMAIN exposure_df : TaxOnNonExemptSales(exposure_df[i])
        /\ \A i \in DOMAIN pkg_exposure_df : TaxOnNonExemptSales(pkg_exposure_df[i])

\* C17 witness: both calculators report a month of CA in which CA has an exempt
\* and a non-exempt transaction.
C17_Witness ==
    /\ ExposureReturned
    /\ \E i \in DOMAIN exposure_df, j \in DOMAIN pkg_exposure_df, k, l \in DOMAIN df :
          /\ exposure_df[i].state = "CA" /\ pkg_exposure_df[j].state = "CA"
          /\ exposure_df[i].month_year = pkg_exposure_df[j].month_year
          /\ df[k].state = "CA" /\ df[k].month = exposure_df[i].month_year
          /\ df[l].state = "CA" /\ df[l].month = exposure_df[i].month_year
          /\ df[k].is_exempt /\ ~df[l].is_exempt
          /\ exposure_df[i].estimated_tax > 0

\* ---------------------------------------------------------------- claims C18
\* The lookback cap in force for a state: the configured one, 36 when the key is
\* not configured.
ConfiguredCap(s) == IfNone(config[s].vda_lookback_cap, DefaultLookbackCap)

\* VDA estimation is requested and the VDA parameters of a state are valid.
ValidVdaRequest(s) ==
    /\ vda_option = "Estimate"
    /\ s \in DOMAIN config
    /\ ~invalid_vda_params(config[s])

\* Month m lies in the window of the last cap months ending at the last data
\* month.
InVdaWindow(m, cap) == m > last_data_month - cap /\ m <= last_data_month

\* A row has its VDA tax inside the window and no VDA amount outside it.
VdaWindowRow(r) ==
    IF InVdaWindow(r.month_year, ConfiguredCap(r.state))
    THEN r.vda_tax = r.estimated_tax
    ELSE r.vda_tax = 0 /\ r.vda_interest = 0 /\ r.vda_penalty = 0

\* C18: with VDA estimation requested and valid parameters the calculation
\* returns, and every row inside the window of the last vda_lookback_cap months
\* (36 when not configured, 0 allowed) has vda_tax = estimated_tax while every
\* row outside it has vda_tax, vda_interest and vda_penalty 0.
C18_VdaWindowIsLastCapMonths ==
    ExposureReturned =>
        /\ \A i \in DOMAIN exposure_df :
              ValidVdaRequest(exposure_df[i].state) => VdaWindowRow(exposure_df[i])
        /\ \A i \in DOMAIN pkg_exposure_df :
              ValidVdaRequest(pkg_exposure_df[i].state) => VdaWindowRow(pkg_exposure_df[i])
        /\ exposure_error = "none"

\* ---------------------------------------------------------------- claims C19
\* A VDA parameter of a state is negative.
NegativeVdaParams(s) ==
    /\ s \in DOMAIN config
    /\ \/ IfNone(config[s].vda_lookback_cap, DefaultLookbackCap) < 0
       \/ IfNone(config[s].vda_interest_rate, DefaultInterestRate) < 0
       \/ IfNone(config[s].standard_penalty_rate, DefaultPenaltyRate) < 0

\* The eight VDA columns of a row are 0 and the tax columns are reported.
ZeroFilledRow(r) ==
    /\ r.full_interest = 0 /\ r.full_penalty = 0 /\ r.full_liability = 0
    /\ r.vda_tax = 0 /\ r.vda_interest = 0 /\ r.vda_penalty = 0
    /\ r.vda_liability = 0 /\ r.estimated_vda_savings = 0
    /\ TaxOnNonExemptSales(r)

\* C19: with VDA estimation requested, every exposure row of a state with a
\* negative lookback cap, interest rate or penalty rate has the eight VDA
\* columns 0 and its tax columns reported, and a warning about the state's VDA
\* parameters is recorded when the state has such a row to report.
C19_InvalidVdaParamsZeroFilledWithWarning ==
    (ExposureReturned /\ vda_option = "Estimate") =>
        \A s \in States : NegativeVdaParams(s) =>
            /\ \A i \in DOMAIN exposure_df :
                  exposure_df[i].state = s => ZeroFilledRow(exposure_df[i])
            /\ \A i \in DOMAIN pkg_exposure_df :
                  pkg_exposure_df[i].state = s => ZeroFilledRow(pkg_exposure_df[i])
            /\ ExposureRows(exposure_df, s) # <<>>
                  => <<"Invalid VDA parameters", s>> \in Range(warnings)
            /\ ExposureRows(pkg_exposure_df, s) # <<>>
                  => \E msg \in Range(pkg_warnings) : msg[2] = s

\* ---------------------------------------------------------------- claims C20
VdaColumnNames ==
    {"full_interest", "full_penalty", "full_liability", "vda_tax", "vda_interest",
     "vda_penalty", "vda_liability", "estimated_vda_savings"}

\* A table has the eight VDA columns, 0 on every row when VDA estimation was not
\* requested.
StableSchema(t) ==
    /\ VdaColumnNames \subseteq exposure_columns(t)
    /\ vda_option # "Estimate"
          => \A i \in DOMAIN t : \A c \in VdaColumnNames : t[i][c] = 0

\* calculate_exposure of src/src returned a table (it did not raise).
TableReturned == ExposureReturned /\ exposure_error = "none"

\* C20 as stated: every table calculate_exposure returns carries the eight VDA
\* columns, 0 on every row when VDA estimation was not requested.
C20_EveryResultHasVdaColumns ==
    /\ TableReturned => StableSchema(exposure_df)
    /\ ExposureReturned => StableSchema(pkg_exposure_df)

\* C20: every non-empty table calculate_exposure returns carries the eight VDA
\* columns on each of its rows, 0 on every row when VDA estimation was not
\* requested; an empty result is a frame without any column.
C20_NonEmptyResultHasVdaColumns ==
    /\ TableReturned =>
          IF exposure_df = <<>> THEN exposure_columns(exposure_df) = {}
          ELSE /\ \A i \in DOMAIN exposure_df : VdaColumnNames \subseteq DOMAIN exposure_df[i]
               /\ StableSchema(exposure_df)
    /\ ExposureReturned =>
          IF pkg_exposure_df = <<>> THEN exposure_columns(pkg_exposure_df) = {}
          ELSE /\ \A i \in DOMAIN pkg_exposure_df :
                     VdaColumnNames \subseteq DOMAIN pkg_exposure_df[i]
               /\ StableSchema(pkg_exposure_df)

\* C20 witness: without VDA estimation both calculators returned rows, with a
\* tax due on one of them.
C20_Witness ==
    /\ TableReturned
    /\ vda_option = "None"
    /\ exposure_df # <<>> /\ pkg_exposure_df # <<>>
    /\ \E i \in DOMAIN exposure_df : exposure_df[i].estimated_tax > 0

\* ---------------------------------------------------------------- claims C21
RECURSIVE FirstOccurrences(_)
\* The distinct messages of a sequence of calls, in order of first occurrence.
FirstOccurrences(c) ==
    IF c = <<>> THEN <<>>
    ELSE LET front == FirstOccurrences(SubSeq(c, 1, Len(c) - 1))
             last == c[Len(c)]
         IN  IF last \in Range(front) THEN front ELSE Append(front, last)

\* The collector after the calls made so far.
CollectorHoldsDistinctCalls ==
    /\ warnings = FirstOccurrences(calls)
    /\ \A msg \in Range(calls) : Occurrences(warnings, msg) = 1
    /\ summary.warnings = warnings
    /\ summary.warnings_count = Cardinality(Range(calls))

\* A call whose message is already recorded changes nothing in the collector.
RepeatedCallChangesNothing ==
    (calls' # calls /\ calls'[Len(calls')] \in Range(warnings))
        => (warnings' = warnings /\ summary' = summary)

\* C21: after any sequence of add_warning calls each distinct message occurs
\* exactly once in warnings, in order of first occurrence, summary
\* warnings_count is the number of distinct messages, and a call with a message
\* already recorded leaves the collector unchanged.
C21_WarningsDeduplicatedInFirstOrder ==
    []CollectorHoldsDistinctCalls /\ [][RepeatedCallChangesNothing]_vars

\* C21 witness: add_warning was called again with a recorded message, after two
\* different messages.
C21_Witness ==
    /\ pc = "collector"
    /\ Len(warnings) >= 2
    /\ Len(calls) > Len(warnings)

\* ---------------------------------------------------------------- claims C22
\* No triggered state has a taxable sale after its trigger month.
NoSalesAfterAnyTrigger(nexus_summary) ==
    \A s \in States :
        first_triggers(nexus_summary, s) # NaT
            => \A i \in DOMAIN taxable_sales_df :
                  taxable_sales_df[i].state = s
                      => taxable_sales_df[i].month <= first_triggers(nexus_summary, s)

\* An empty-input condition of the exposure step: no transactions, no
\* non-exempt sales, an empty nexus summary, no triggered state (a case of the
\* last one), no sales after any trigger month.
EmptyExposureInput(nexus_summary) ==
    \/ df = <<>>
    \/ taxable_sales_df = <<>>
    \/ nexus_summary = <<>>
    \/ NoSalesAfterAnyTrigger(nexus_summary)

\* Every empty-input condition ends in an empty table and no exception.
EmptyInputGivesEmptyTable ==
    /\ (NexusReturned /\ df = <<>>) => results = <<>>
    /\ (ExposureReturned /\ EmptyExposureInput(results))
          => (exposure_df = <<>> /\ exposure_error = "none")
    /\ (ExposureReturned /\ EmptyExposureInput(df_out)) => pkg_exposure_df = <<>>

\* C22: an empty-input condition at any stage makes the stage return an empty
\* table without raising, and no run on a table that meets the input contract
\* (every modelled input does) is aborted by an exception.
C22_OnlyContractViolationsAbort ==
    /\ EmptyInputGivesEmptyTable
    /\ exposure_error = "none"

\* ---------------------------------------------------------------- claims C23
\* Both calculators were given a sales table without DatetimeIndex but with an
\* invoice_date column and a summary whose trigger months are strings, and the
\* package's calculate_exposure has ended.
UnindexedRun ==
    /\ pc \in {"nexus", "aborted"}
    /\ raw_sales # <<>> /\ summary_in # <<>>
    /\ sales_index = "RangeIndex" /\ "invoice_date" \in columns
    /\ trigger_dtype = "str"

\* The trigger month the handed-over summary gives for a state, as year and
\* month numbers; NullStr if it gives none.
TriggerString(s) ==
    IF \E i \in DOMAIN summary_in : summary_in[i].state = s
    THEN summary_in[CHOOSE i \in DOMAIN summary_in : summary_in[i].state = s].first_trigger_month
    ELSE NullStr

\* A date lies in a month after the month of a month string.
AfterMonth(date, str) ==
    date[1] > str[1] \/ (date[1] = str[1] /\ date[2] > str[2])

\* The year and month of the non-exempt sales of a state dated after the
\* state's trigger month.
MonthsAfterTrigger(s) ==
    {<<raw_sales[i].invoice_date[1], raw_sales[i].invoice_date[2]>> :
        i \in {j \in DOMAIN raw_sales :
                 /\ raw_sales[j].state = s /\ ~raw_sales[j].is_exempt
                 /\ TriggerString(s) # NullStr
                 /\ AfterMonth(raw_sales[j].invoice_date, TriggerString(s))}}

\* Year and month of a month of the model.
YearMonth(m) == <<BaseYear + (m \div MonthsPerYear), (m % MonthsPerYear) + 1>>

\* The package's calculate_exposure accepted the tables: no exception, and for
\* every configured state one row for each month after the trigger month in
\* which the state has a non-exempt sale, by the dates of invoice_date.
PkgAcceptsUnindexedTables ==
    /\ pkg_error = "none"
    /\ pc = "nexus"
    /\ \A s \in States :
          {YearMonth(r.month_year) : r \in Range(ExposureRows(pkg_exposure_df, s))}
             = IF s \in DOMAIN config THEN MonthsAfterTrigger(s) ELSE {}
    /\ \A i, j \in DOMAIN pkg_exposure_df :
          (pkg_exposure_df[i].state = pkg_exposure_df[j].state
           /\ pkg_exposure_df[i].month_year = pkg_exposure_df[j].month_year) => i = j

\* C23 as stated, for calculate_exposure of either ExposureCalculator: the
\* tables are accepted, nothing raises, the rows of the months after each
\* trigger month are returned.
C23_UnindexedTablesAccepted ==
    UnindexedRun => (PkgAcceptsUnindexedTables /\ exposure_error = "none")

\* C23: calculate_exposure(sales_df, nexus_summary) of the package accepts a
\* sales table that has no DatetimeIndex but an invoice_date column and a
\* summary with month strings: it does not raise, takes the month of each sale
\* from invoice_date and returns the rows of the months after each trigger
\* month.  The constructor of the src calculator rejects the same tables with
\* a TypeError unless every trigger month is null, and then still rejects the
\* sales table.
C23_PackageAcceptsUnindexedTables ==
    UnindexedRun => (PkgAcceptsUnindexedTables /\ exposure_error = "TypeError")

\* C23 witness: a table with a month_year string that disagrees with the date
\* of the sale gave a CA row for 2024-02 with tax due.
C23_Witness ==
    /\ UnindexedRun
    /\ TriggerString("CA") = MonthStr(2024, 1)
    /\ \E i \in DOMAIN raw_sales :
          raw_sales[i].month_year # <<raw_sales[i].invoice_date[1], raw_sales[i].invoice_date[2]>>
    /\ \E i \in DOMAIN pkg_exposure_df :
          /\ pkg_exposure_df[i].state = "CA" /\ pkg_exposure_df[i].month_year = 1
          /\ pkg_exposure_df[i].estimated_tax > 0

\* ---------------------------------------------------------------- claims C24
RECURSIVE curr_ytd_by_year(_, _, _)
\* df_m.groupby(["state", "cy"])[["sales", "txns"]].cumsum() of src/agg_utils.py
\* at row i of the rows of one state: the running sum of column f over the rows
\* of the same calendar year up to row i.
curr_ytd_by_year(rows, f, i) ==
    IF i = 0 THEN 0
    ELSE IF i > 1 /\ rows[i - 1].cy = rows[i].cy
         THEN rows[i][f] + curr_ytd_by_year(rows, f, i - 1)
         ELSE rows[i][f]

\* The row numbers of a metrics table that belong to the state and the calendar
\* year of row i and to a month from January of that year through the month of
\* row i.
JanuaryThrough(rows, i) ==
    {j \in DOMAIN rows : /\ rows[j].state = rows[i].state
                         /\ Year(rows[j].month_year) = Year(rows[i].month_year)
                         /\ rows[j].month_year <= rows[i].month_year}

RECURSIVE SumOver(_, _, _)
\* Sum of column f over a set of row numbers of a table.
SumOver(rows, f, I) ==
    IF I = {} THEN 0
    ELSE LET i == CHOOSE x \in I : TRUE
         IN  rows[i][f] + SumOver(rows, f, I \ {i})

\* The rows of one state in the metrics table, in table order.
MetricsOf(rows, s) == SelectSeq(rows, LAMBDA r : r.state = s)

\* C24: on every row of the monthly metrics table the current-year-to-date
\* sales and transactions are the sums of the state's monthly sales and
\* transactions from January of the row's calendar year through the row's
\* month: the sum restarts at each January and holds no month of an earlier
\* year.  Stated for the table add_calendar_year_metrics of the package builds
\* and for the grouped running sum of src/agg_utils.py.
C24_CurrYtdRestartsEachJanuary ==
    \A i \in DOMAIN df_m :
        /\ df_m[i].sales_curr_ytd = SumOver(df_m, "sales", JanuaryThrough(df_m, i))
        /\ df_m[i].txns_curr_ytd = SumOver(df_m, "txns", JanuaryThrough(df_m, i))
        /\ LET rows == MetricsOf(df_m, df_m[i].state)
           IN  \A k \in DOMAIN rows :
                  /\ curr_ytd_by_year(rows, "sales", k)
                        = SumOver(rows, "sales", JanuaryThrough(rows, k))
                  /\ curr_ytd_by_year(rows, "txns", k)
                        = SumOver(rows, "txns", JanuaryThrough(rows, k))

\* The half of C24 that the grouped running sum of src/agg_utils.py satisfies.
C24_GroupedSumRestartsEachJanuary ==
    \A s \in States :
        LET rows == MetricsOf(df_m, s)
        IN  \A k \in DOMAIN rows :
               /\ curr_ytd_by_year(rows, "sales", k)
                     = SumOver(rows, "sales", JanuaryThrough(rows, k))
               /\ curr_ytd_by_year(rows, "txns", k)
                     = SumOver(rows, "txns", JanuaryThrough(rows, k))

\* ---------------------------------------------------------------- claims C25
\* The row numbers of a metrics table that belong to the state of row i and to
\* the calendar year before the year of row i.
YearBefore(rows, i) ==
    {j \in DOMAIN rows : /\ rows[j].state = rows[i].state
                         /\ Year(rows[j].month_year) = Year(rows[i].month_year) - 1}

\* The first calendar year in which the state of row i has a row.
FirstObservedYear(rows, i) ==
    SetMin({Year(rows[j].month_year) : j \in {k \in DOMAIN rows : rows[k].state = rows[i].state}})

\* C25: on every row of the monthly metrics table the previous-year totals are
\* null in the state's first observed year, and in any later year Y they are
\* the sums of the state's monthly sales and transactions of the calendar year
\* Y-1 exactly, hence the same on every month of Y.
C25_PrevYearTotalsAreExactlyLastYear ==
    \A i \in DOMAIN df_m :
        IF Year(df_m[i].month_year) = FirstObservedYear(df_m, i)
        THEN df_m[i].sales_prev_yr = None /\ df_m[i].txns_prev_yr = None
        ELSE /\ df_m[i].sales_prev_yr = SumOver(df_m, "sales", YearBefore(df_m, i))
             /\ df_m[i].txns_prev_yr = SumOver(df_m, "txns", YearBefore(df_m, i))

\* ---------------------------------------------------------------- claims C26
\* The second run of the pipeline has ended.
SecondRunEnded == first_run.done /\ pc = "done"

\* C26: a second run of analyze_nexus and calculate_exposure on the same
\* transactions and the same configuration returns the tables of the first
\* run, row for row in the same order with the same values, and ends the same
\* way, whatever the first run left in the analyzer, the calculator and the
\* ErrorCollector.
C26_SecondRunGivesSameTables ==
    SecondRunEnded =>
        /\ results = first_run.results
        /\ exposure_df = first_run.exposure_df
        /\ exposure_error = first_run.exposure_error

\* C26 witness: a second run ended with a nexus table and an exposure table
\* that both have rows, the first run having recorded a warning.
C26_Witness ==
    /\ SecondRunEnded
    /\ results # <<>>
    /\ exposure_df # <<>>
    /\ first_run.results # <<>>
    /\ first_run.exposure_df # <<>>
    /\ warnings # <<>>

\* ---------------------------------------------------------------- claims C27
\* Both _postprocess implementations have returned.
Postprocessed == pc = "load"

\* The labels of the file's columns in lower case without surrounding spaces.
Lowered == [i \in DOMAIN file.columns |-> lower_strip(file.columns[i])]

\* The file has every required column.
HasRequiredColumns == \A k \in DOMAIN required_columns : required_columns[k] \in Range(Lowered)

\* A returned table is not empty, has a channel column and no sales_channel
\* column, and holds the rows of the file unchanged.
ChannelRenamed(t) ==
    /\ ~IsEmpty(t)
    /\ "channel" \in Range(t.columns)
    /\ "sales_channel" \notin Range(t.columns)
    /\ t.rows = file.rows

HasRows(rows, s) == \E i \in DOMAIN rows : rows[i].state = s

\* The half of C28 about the loop analyzer: every state with rows in its result
\* has one row for each month from the earliest to the latest month of the
\* whole input, in increasing month order.
C28_LoopRowPerMonthOfWholeInput ==
    NexusReturned =>
        \A s \in States : HasRows(results, s) => OneRowPerMonth(results, s)

\* C28: in the result of either analyzer, every state that has rows has exactly
\* one row for each month from the earliest to the latest month present in the
\* whole input, in strictly increasing month order, also for months before the
\* state's first transaction and after its last one.
C28_RowPerMonthOfWholeInput ==
    /\ C28_LoopRowPerMonthOfWholeInput
    /\ \A s \in States : HasRows(df_out, s) => OneRowPerMonth(df_out, s)

\* ---------------------------------------------------------------- claims C29
\* standardize returned a table with rows, and the NexusAnalyzer constructor
\* has been called with it.
StandardizedHandedOver ==
    /\ pc \in {"aborted", "accepted"}
    /\ ~IsEmpty(frame)

\* C29: in the workflow of the application (load, standardize, analyze nexus,
\* tag exemptions, calculate exposure) the table DataStandardizer.standardize
\* returns for a non-empty valid input is accepted by the constructor of
\* NexusAnalyzer: its DatetimeIndex check does not raise, and the run goes on
\* toward the exposure step.
C29_StandardizedTableAccepted ==
    StandardizedHandedOver => (nexus_error = "none" /\ pc = "accepted")

\* ---------------------------------------------------------------- claims C30
\* A state is configured with the rolling 12-month rule, marketplace sales
\* included and a sales threshold only.
RollingSalesOnly(s) ==
    /\ s \in DOMAIN config
    /\ config[s].lookback_rule = "rolling_12m"
    /\ config[s].marketplace_threshold_inclusion
    /\ config[s].sales_threshold # None
    /\ config[s].transaction_threshold = None

\* The first trigger month a result table gives for a state, NaT if none.
FirstTriggerIn(rows, s) == MinOrNaT(TriggerValues(rows, s))

\* The input has no marketplace row, and the state has a transaction in every
\* month from the earliest to the latest month of the input.
DirectAndGapless(s) ==
    /\ \A i \in DOMAIN df : ~is_marketplace_sale(df[i])
    /\ \A m \in min_month..max_month : \E i \in DOMAIN df : df[i].state = s /\ df[i].month = m

\* The half of C30 that holds: the two analyzers agree on a state with a
\* transaction in every month when the input has no marketplace row.
C30_AnalyzersAgreeOnGaplessDirectSales ==
    NexusReturned =>
        \A s \in States :
            (RollingSalesOnly(s) /\ HasRows(df, s) /\ DirectAndGapless(s))
                => FirstTriggerIn(df_out, s) = FirstTriggerIn(results, s)

\* C30: for a state configured with rolling_12m, marketplace inclusion and a
\* sales threshold only, the vectorised analyzer and the loop analyzer give the
\* same first_trigger_month on the same transactions, whatever the input:
\* months without transactions and marketplace rows included.
C30_VectorisedAgreesWithLoop ==
    NexusReturned =>
        \A s \in States :
            RollingSalesOnly(s) => FirstTriggerIn(df_out, s) = FirstTriggerIn(results, s)

\* ------------------------------------------------------------ specification
\* The state before the run: nothing computed, the collectors empty.
Blank ==
    /\ df_m = <<>>
    /\ df_out = <<>>
    /\ warnings = <<>>
    /\ state_i = 1
    /\ period = 0
    /\ first_trigger_month_for_state = NaT
    /\ state_results = <<>>
    /\ results = <<>>
    /\ exposure_df = <<>>
    /\ exposure_error = "none"
    /\ pkg_exposure_df = <<>>
    /\ pkg_warnings = <<>>
    /\ summary = [warnings |-> <<>>, warnings_count |-> 0]
    /\ calls = <<>>
    /\ pkg_error = "none"
    /\ nexus_error = "none"
    /\ first_run = NoRun
    /\ frame = EmptyFrame
    /\ pkg_frame = EmptyFrame

\* The run starts from a standardized table with a DatetimeIndex: no table is
\* waiting to be coerced.
Standardized ==
    /\ raw_sales = <<>>
    /\ columns = {}
    /\ sales_index = "DatetimeIndex"
    /\ summary_in = <<>>
    /\ trigger_dtype = "period"
    /\ file = EmptyFrame

\* The analysis is about to start.
Start == pc = "vec" /\ Blank /\ Standardized

Init ==
    /\ df \in {SortByMonth(S) : S \in SubsetsUpTo(NexusTxnPool, MaxTxns)}
    /\ config \in NexusConfigs
    /\ vda_option = "Estimate"
    /\ Start

Next ==
    \/ vec_analyze_nexus
    \/ pkg_calculate_exposure
    \/ analyze_nexus_begin
    \/ analyze_nexus_state
    \/ analyze_nexus_period
    \/ analyze_nexus_end
    \/ calculate_exposure

Spec == Init /\ [][Next]_vars

\* The same program on inputs chosen for the exposure step: exempt rows, returns,
\* the VDA parameters and both settings of the VDA option.
InitExposure ==
    /\ df \in {SortByMonth(S) : S \in SubsetsUpTo(ExposureTxnPool, MaxSales)}
    /\ config \in ExposureConfigs
    /\ vda_option \in {"Estimate", "None"}
    /\ Start

SpecExposure == InitExposure /\ [][Next]_vars

\* The same program on the worked scenario and its variations.
InitScenario ==
    /\ df \in {SortByMonth(S) : S \in SubsetsUpTo(ScenarioTxnPool, MaxSales)}
    /\ config \in ScenarioConfigs
    /\ vda_option \in {"Estimate", "None"}
    /\ Start

SpecScenario == InitScenario /\ [][Next]_vars

\* --------------------------------------------------------- the run repeated
\* The loop analyzer and the src calculator on the scenario inputs, run and
\* then run again.
InitRerun ==
    /\ df \in {SortByMonth(S) : S \in SubsetsUpTo(ScenarioTxnPool, MaxSales)}
    /\ config \in ScenarioConfigs
    /\ vda_option \in {"Estimate", "None"}
    /\ pc = "nexus"
    /\ Blank
    /\ Standardized

NextRerun ==
    \/ analyze_nexus_begin
    \/ analyze_nexus_state
    \/ analyze_nexus_period
    \/ analyze_nexus_end
    \/ calculate_exposure
    \/ run_again

SpecRerun == InitRerun /\ [][NextRerun]_vars

\* ------------------------------------ both calculators on handed-over tables
\* The two tables are handed to the constructor of the src calculator and to
\* calculate_exposure of the package, in each layout.
InitHandover ==
    /\ pc = "handover"
    /\ df = <<>>
    /\ config \in ScenarioConfigs
    /\ vda_option \in {"Estimate", "None"}
    /\ Blank
    /\ file = EmptyFrame
    /\ raw_sales \in {SortByInvoice(S) : S \in SubsetsUpTo(RawSalesPool, MaxSales)}
    /\ \E layout \in SalesLayouts :
          columns = layout.columns /\ sales_index = layout.index
    /\ \/ trigger_dtype = "str" /\ summary_in \in StringSummaries \cup {<<>>}
       \/ trigger_dtype = "period" /\ summary_in \in PeriodSummaries

NextHandover ==
    \/ exposure_init
    \/ pkg_coerce_inputs
    \/ pkg_calculate_exposure

SpecHandover == InitHandover /\ [][NextHandover]_vars

\* ------------------------------------------------- the front of the pipeline
\* A row of a sales extract, by column.
FileRow(date, inv, amount, state, zip) ==
    [date |-> date, invoice_number |-> inv, invoice_date |-> date, total_amount |-> amount,
     customer_name |-> "Test Customer", street_address |-> "123 Main St",
     city |-> "Anytown", state |-> state, zip_code |-> zip,
     sales_channel |-> "Marketplace", channel |-> "web"]

\* The rows a file may hold: the row of test_sales_channel_renamed with a
\* parseable date, a second state in lower case, a repeated invoice number with
\* a date that does not parse, a missing amount, an empty state, a state that
\* is not an abbreviation.
FileRowPool ==
    <<FileRow("2024-01-15", "INV-1", "100.0", "CA", "90210"),
      FileRow("2024-02-20", "INV-2", "25.0", " ny", "90210-1234"),
      FileRow("soon", "INV-1", "25.0", "CA", "90210"),
      FileRow("2024-01-15", "INV-3", NullCell, "CA", NullCell),
      FileRow("2024-02-20", "INV-4", "25.0", "", "90210"),
      FileRow("2024-02-20", "INV-5", "25.0", "Calif", "90210")>>

\* The headers a file may have: the required columns; labels in another case
\* and with spaces; a channel column next to sales_channel; no zip_code.
FileHeaders ==
    {required_columns,
     [i \in DOMAIN required_columns |->
         CASE required_columns[i] = "sales_channel" -> " Sales_Channel"
           [] required_columns[i] = "state" -> "State "
           [] OTHER -> required_columns[i]],
     required_columns \o <<"channel">>,
     required_columns \o <<"Channel">>,
     SelectSeq(required_columns, LAMBDA c : c # "zip_code")}

\* The cells of a row under a header.
Cells(header, row) == [i \in DOMAIN header |-> row[lower_strip(header[i])]]

\* The files: a header, up to MaxSales rows of the pool in pool order, and the
\* dtypes read_csv gives with dtype=DTYPE_MAP or those of a table built by hand.
Files ==
    {Table(h,
           IF typed THEN astype([i \in DOMAIN h |-> lower_strip(h[i])],
                                [i \in DOMAIN h |-> "object"])
           ELSE [i \in DOMAIN h |-> "object"],
           [k \in 1..Cardinality(I) |-> Cells(h, FileRowPool[SortedSeq(I)[k]])],
           "RangeIndex") :
        h \in FileHeaders, typed \in BOOLEAN,
        I \in {J \in SUBSET (DOMAIN FileRowPool) : Cardinality(J) <= MaxSales}}

InitIngest ==
    /\ pc = "file"
    /\ df = <<>>
    /\ config = ScenarioConfig
    /\ vda_option = "None"
    /\ Blank
    /\ raw_sales = <<>>
    /\ columns = {}
    /\ sales_index = "RangeIndex"
    /\ summary_in = <<>>
    /\ trigger_dtype = "period"
    /\ file \in Files

NextIngest ==
    \/ pkg_postprocess
    \/ _postprocess
    \/ load_data
    \/ standardize
    \/ nexus_init

SpecIngest == InitIngest /\ [][NextIngest]_vars

\* ------------------------------------------------ the ErrorCollector alone
\* The messages a caller passes to add_warning.
Messages == {"m1", "m2", "m3"}

\* ErrorCollector.add_warning(message), called on a collector by itself.
add_warning_call ==
    /\ pc = "collector"
    /\ Len(calls) < MaxCalls
    /\ \E message \in Messages :
          /\ warnings' = add_warning(warnings, message)
          /\ summary' = record_in_summary(summary, warnings, warnings')
          /\ calls' = Append(calls, message)
    /\ UNCHANGED <<df, config, pc, state_i, period, first_trigger_month_for_state,
                   state_results, results, df_m, df_out, vda_option, exposure_df,
                   exposure_error, pkg_exposure_df, pkg_warnings>>
    /\ UNCHANGED outside

\* ErrorCollector(): no warning recorded, the summary count 0; no analysis runs.
InitCollector ==
    /\ pc = "collector"
    /\ df = <<>>
    /\ config = ScenarioConfig
    /\ vda_option = "None"
    /\ Blank
    /\ Standardized

NextCollector == add_warning_call

SpecCollector == InitCollector /\ [][NextCollector]_vars

====
